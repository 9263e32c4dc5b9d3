--------------------------- MODULE UserDataProofs ---------------------------
(***************************************************************************)
(* The proof that LaunchPreparation's machines have their user data, for   *)
(* every additional document.  The provers do not know that the literals   *)
(* of the source are strings; Files and Commands add them.                 *)
(***************************************************************************)
EXTENDS LaunchPreparationProofs, SequenceTheorems

\* The file at place i of a list boots, if no file of its path follows in the
\* list or in what is appended to it.
LEMMA BootsUnlessReplaced ==
  ASSUME NEW S, NEW head \in Seq(S), NEW add \in Seq(S), NEW cfg, cfg.files = head \o add,
         NEW i \in 1 .. Len(head), \A j \in i + 1 .. Len(head) : head[j][1] # head[i][1],
         \A f \in ToSet(add) : f[1] # head[i][1]
  PROVE  Boots(cfg, head[i])
<1> DEFINE files == head \o add
<1>1. /\ Len(files) = Len(head) + Len(add) /\ i \in 1 .. Len(files) /\ files[i] = head[i]
      /\ Len(head) \in Nat /\ Len(add) \in Nat
  OBVIOUS
<1>2. ASSUME NEW j \in i + 1 .. Len(files) PROVE files[j][1] # head[i][1]
  <2>1. CASE j <= Len(head)
    <3>1. j \in i + 1 .. Len(head) /\ files[j] = head[j]
      BY <1>1, <2>1
    <3>2. QED
      BY <3>1
  <2>2. CASE j > Len(head)
    <3>1. j - Len(head) \in 1 .. Len(add) /\ files[j] = add[j - Len(head)]
      BY <1>1, <2>2
    <3>2. files[j] \in ToSet(add)
      BY <3>1 DEF ToSet
    <3>3. QED
      BY <3>2
  <2>3. QED
    BY <1>1, <2>1, <2>2
<1> HIDE DEF files
<1>3. cfg.files = files
  BY DEF files
<1>4. QED
  BY <1>1, <1>2, <1>3 DEF Boots

\* Nothing that is appended is lost.
LEMMA AppendedIsKept ==
  ASSUME NEW S, NEW head \in Seq(S), NEW add \in Seq(S), NEW f \in ToSet(add)
  PROVE  f \in ToSet(head \o add)
<1>1. PICK i \in 1 .. Len(add) : add[i] = f
  BY DEF ToSet
<1> DEFINE files == head \o add
<1>2. Len(head) + i \in DOMAIN files /\ files[Len(head) + i] = f
  BY <1>1
<1> HIDE DEF files
<1>3. f \in ToSet(files)
  BY <1>2 DEF ToSet
<1>4. QED
  BY <1>3 DEF files

\* What the first-boot agent reads is what the renderer made.
LEMMA AgentReadsRendered ==
  ASSUME NEW d, NEW format, NEW additional
  PROVE  GetInitData(d, format, additional)[UserDataKey(format)].base64 =
           Render(d, format, additional)
<1>1. UserDataKey(format) # "guestinfo.metadata"
  BY DEF UserDataKey
<1> DEFINE user == SetData(<<>>, UserDataKey(format), Render(d, format, additional))
<1>2. UserDataKey(format) \in DOMAIN user /\ user[UserDataKey(format)] = Encode(Render(d, format, additional))
  BY DEF SetData
<1> HIDE DEF user
<1>3. SetData(user, "guestinfo.metadata", "local-hostname")[UserDataKey(format)] = user[UserDataKey(format)]
  BY <1>1, <1>2 DEF SetData
<1>4. GetInitData(d, format, additional) = SetData(user, "guestinfo.metadata", "local-hostname")
  BY DEF GetInitData, user
<1>5. QED
  BY <1>2, <1>3, <1>4 DEF Encode

\* The script that the commands become, and what files and commands there are.
Script(d) == <<JoinScript, Generate(d).commands>>
Files(d) == (STRING \X STRING) \cup {JoinConfig, Script(d)}
Commands == STRING \cup {"sleep", "download", "install.sh", "enable", "start"}

LEMMA JoinFiles ==
  ASSUME NEW d
  PROVE  /\ JoinConfig \in Files(d) /\ Script(d) \in Files(d)
         /\ JoinConfig[1] # JoinScript /\ Script(d)[1] = JoinScript
         /\ Generate(d).files = <<JoinConfig>> /\ Head(Generate(d).files) = JoinConfig
         /\ Generate(d).commands \in Seq(Commands) /\ Len(Generate(d).commands) = 4
<1>1. JoinConfig \in Files(d) /\ Script(d) \in Files(d)
  BY DEF Files
<1>2. Script(d)[1] = JoinScript
  BY DEF Script
<1>3. JoinConfig[1] # JoinScript
  BY DEF JoinConfig, JoinScript
<1>4. Generate(d).files = <<JoinConfig>>
  BY DEF Generate
<1>5. Head(Generate(d).files) = JoinConfig
  BY <1>4
<1> DEFINE install == IF d = "rke2" THEN "download" ELSE "install.sh"
<1>6. Generate(d).commands = <<"sleep", install, "enable", "start">>
  BY DEF Generate
<1>7. "sleep" \in Commands /\ install \in Commands /\ "enable" \in Commands /\ "start" \in Commands
  BY DEF Commands
<1> HIDE DEF install
<1>8. <<"sleep", install, "enable", "start">> \in Seq(Commands)
  BY <1>7
<1>9. Len(<<"sleep", install, "enable", "start">>) = 4
  OBVIOUS
<1>10. QED
  BY <1>1, <1>2, <1>3, <1>4, <1>5, <1>6, <1>8, <1>9

\* What is appended to a list keeps it as the beginning.
LEMMA PrefixOfConcat ==
  ASSUME NEW S, NEW s \in Seq(S), NEW t \in Seq(S), s # <<>>
  PROVE  IsPrefix(s, s \o t)
<1>1. Len(s) \in Nat /\ Len(t) \in Nat /\ Len(s \o t) = Len(s) + Len(t)
  BY LenProperties, ConcatProperties
<1>2. 1 \in 1 .. Len(s) /\ Len(s) \in 1 .. Len(s)
  BY <1>1, EmptySeq
<1>3. SubSeq(s \o t, 1, Len(s)) = SubSeq(s, 1, Len(s))
  BY <1>2, SubSeqOfConcat1
<1>4. QED
  BY <1>1, <1>3 DEF IsPrefix

\* The additional documents of the classes.
LEMMA AdditionalTypes ==
  ASSUME PrepInv
  PROVE  /\ class.additional.cfg.files \in Seq(STRING \X STRING)
         /\ class.additional.cfg.commands \in Seq(STRING)
<1>1. [class |-> class, claim |-> claim] \in Launches
  BY DEF PrepInv, InputInv
<1>2. [class |-> class, claim |-> claim].class = class
  OBVIOUS
<1>3. QED
  BY <1>1, <1>2, LaunchConstants

LEMMA CloudConfigMerges ==
  ASSUME NEW add, class.additional.cfg = add, class.format = CloudConfig,
         add.files \in Seq(STRING \X STRING), add.commands \in Seq(STRING)
  PROVE  Merged(RenderCloudConfig(Generate(distro), add))
<1> DEFINE cfg == RenderCloudConfig(Generate(distro), add)
           made == Generate(distro)
<1>1. cfg.files = made.files \o add.files /\ cfg.commands = made.commands \o add.commands
  BY DEF RenderCloudConfig, Generate
<1>2. /\ made.files = <<JoinConfig>> /\ made.files \in Seq(Files(distro))
      /\ made.commands \in Seq(Commands) /\ made.commands # <<>>
  <2>1. JoinConfig \in Files(distro) /\ made.files = <<JoinConfig>>
    BY JoinFiles
  <2>2. made.commands \in Seq(Commands) /\ Len(made.commands) = 4
    BY JoinFiles
  <2> HIDE DEF made
  <2>3. <<JoinConfig>> \in Seq(Files(distro))
    BY <2>1
  <2>4. made.commands # <<>>
    <3>1. Len(<<>>) = 0
      OBVIOUS
    <3>2. Len(made.commands) # Len(<<>>)
      BY <2>2, <3>1
    <3>3. QED
      BY <3>2
  <2>5. QED
    BY <2>1, <2>2, <2>3, <2>4
<1>3. add.files \in Seq(Files(distro)) /\ add.commands \in Seq(Commands)
  BY DEF Files, Commands
<1> HIDE DEF cfg, made
<1>4. ASSUME JoinConfig[1] \notin Paths(add) PROVE Boots(cfg, JoinConfig)
  <2>1. \A f \in ToSet(add.files) : f[1] # JoinConfig[1]
    BY <1>4 DEF Paths
  <2>2. Len(made.files) = 1 /\ made.files[1] = JoinConfig
    BY <1>2
  <2>3. 1 \in 1 .. Len(made.files) /\ \A j \in 2 .. Len(made.files) : FALSE
    BY <2>2
  <2>4. \A j \in 1 + 1 .. Len(made.files) : made.files[j][1] # made.files[1][1]
    BY <2>3
  <2>5. \A f \in ToSet(add.files) : f[1] # made.files[1][1]
    BY <2>1, <2>2
  <2>6. Boots(cfg, made.files[1])
    BY <1>1, <1>2, <1>3, <2>3, <2>4, <2>5, BootsUnlessReplaced
  <2>7. QED
    BY <2>2, <2>6
<1>5. \A f \in ToSet(add.files) : f \in ToSet(cfg.files)
  BY <1>1, <1>2, <1>3, AppendedIsKept
<1>6. IsPrefix(made.commands, cfg.commands)
  BY <1>1, <1>2, <1>3, PrefixOfConcat
<1>7. class.format # Ignition
  BY DEF CloudConfig, Ignition
<1>8. QED
  BY <1>4, <1>5, <1>6, <1>7 DEF Merged, cfg, made

LEMMA IgnitionMerges ==
  ASSUME NEW add, class.additional.cfg = add, add.files \in Seq(STRING \X STRING)
  PROVE  Merged(RenderIgnition(Generate(distro), add))
<1> DEFINE F == Files(distro)
           Kept(f) == IF f[1] \in Paths(add) THEN <<>> ELSE <<f>>
           config == Kept(JoinConfig)
           script == Kept(Script(distro))
           head == config \o script
           cfg == RenderIgnition(Generate(distro), add)
<1>1. cfg.files = head \o add.files
  <2>1. cfg.files = Kept(Head(Generate(distro).files)) \o Kept(Script(distro)) \o add.files
    BY DEF RenderIgnition, Script
  <2>2. Head(Generate(distro).files) = JoinConfig
    BY JoinFiles
  <2>3. QED
    BY <2>1, <2>2
<1>2. JoinConfig \in F /\ Script(distro) \in F /\ JoinConfig[1] # JoinScript /\ Script(distro)[1] = JoinScript
  BY JoinFiles
<1>3. add.files \in Seq(F)
  BY DEF Files
<1>4. \A path : path \notin Paths(add) => \A f \in ToSet(add.files) : f[1] # path
  BY DEF Paths
<1> HIDE DEF F, cfg
<1>5. /\ config \in Seq(F) /\ script \in Seq(F)
      /\ JoinConfig[1] \notin Paths(add) => config = <<JoinConfig>>
      /\ JoinScript \notin Paths(add) => script = <<Script(distro)>>
      /\ config = <<>> \/ config = <<JoinConfig>>
      /\ script = <<>> \/ script = <<Script(distro)>>
  BY <1>2
<1> HIDE DEF config, script
<1>6. /\ head \in Seq(F) /\ Len(head) = Len(config) + Len(script)
      /\ \A i \in 1 .. Len(config) + Len(script) :
           head[i] = IF i <= Len(config) THEN config[i] ELSE script[i - Len(config)]
  BY <1>5, ConcatProperties
<1>7. /\ Len(<<>>) = 0 /\ Len(<<JoinConfig>>) = 1 /\ Len(<<Script(distro)>>) = 1
      /\ <<JoinConfig>>[1] = JoinConfig /\ <<Script(distro)>>[1] = Script(distro)
  OBVIOUS
<1>8. /\ Len(config) \in {0, 1} /\ (JoinConfig[1] \notin Paths(add) => Len(config) = 1)
      /\ Len(script) \in {0, 1} /\ (Len(script) = 1 => script = <<Script(distro)>>)
  BY <1>5, <1>7
<1> HIDE DEF head
<1>9. ASSUME JoinConfig[1] \notin Paths(add) PROVE Boots(cfg, JoinConfig)
  <2>1. config = <<JoinConfig>> /\ Len(config) = 1 /\ 1 \in 1 .. Len(head) /\ head[1] = JoinConfig
    <3>1. config = <<JoinConfig>> /\ Len(config) = 1
      BY <1>5, <1>8, <1>9
    <3>2. 1 \in 1 .. Len(head) /\ head[1] = config[1]
      BY <1>6, <1>8, <3>1
    <3>3. QED
      BY <1>7, <3>1, <3>2
  <2>2. ASSUME NEW j \in 1 + 1 .. Len(head) PROVE head[j][1] # head[1][1]
    <3>1. j = 2 /\ Len(script) = 1
      BY <1>6, <1>8, <2>1
    <3>2. script = <<Script(distro)>>
      BY <1>8, <3>1
    <3>3. head[j] = script[1]
      BY <1>6, <2>1, <3>1
    <3>4. QED
      BY <1>2, <1>7, <2>1, <3>2, <3>3
  <2>3. \A f \in ToSet(add.files) : f[1] # head[1][1]
    BY <1>4, <1>9, <2>1
  <2>4. Boots(cfg, head[1])
    BY <1>1, <1>3, <1>6, <2>1, <2>2, <2>3, BootsUnlessReplaced
  <2>5. QED
    BY <2>1, <2>4
<1>10. ASSUME JoinScript \notin Paths(add) PROVE Boots(cfg, Script(distro))
  <2> DEFINE n == Len(config) + 1
  <2>1. script = <<Script(distro)>> /\ Len(script) = 1 /\ Len(config) \in {0, 1}
    BY <1>5, <1>7, <1>10, <1>8
  <2>2. n \in 1 .. Len(head) /\ Len(head) = n /\ head[n] = Script(distro)
    BY <1>6, <1>7, <2>1
  <2>3. n \in Nat
    BY <2>1
  <2> HIDE DEF n
  <2>4. \A j \in n + 1 .. Len(head) : head[j][1] # head[n][1]
    BY <2>2, <2>3
  <2>5. \A f \in ToSet(add.files) : f[1] # head[n][1]
    BY <1>2, <1>4, <1>10, <2>2
  <2>6. Boots(cfg, head[n])
    BY <1>1, <1>3, <1>6, <2>2, <2>4, <2>5, BootsUnlessReplaced
  <2>7. QED
    BY <2>2, <2>6
<1>11. \A f \in ToSet(add.files) : f \in ToSet(cfg.files)
  BY <1>1, <1>3, <1>6, AppendedIsKept
<1>12. /\ add.units \subseteq cfg.units
       /\ JoinUnit[1] \notin UnitNames(add) => JoinUnit \in cfg.units
  BY DEF RenderIgnition, cfg
<1>13. QED
  BY <1>9, <1>10, <1>11, <1>12 DEF Merged, cfg, Script

\* Additional user data that parses takes nothing from a machine that it needs
\* to join the cluster, except files that it replaces itself (Render).
THEOREM UserDataIsComplete == Spec => []UserDataComplete
<1>1. ASSUME PrepInv PROVE UserDataComplete
  <2>1. SUFFICES ASSUME machine # NoObject, class.format \in class.additional.parses
        PROVE Merged(BootData(machine))
    BY DEF UserDataComplete
  <2>2. step = "cloned" /\ machine.guestinfo = userData
    BY <1>1, <2>1, MachinePlaced
  <2>3. userData = GetInitData(distro, class.format, class.additional)
    BY <1>1, <2>2 DEF PrepInv, InputInv, Late
  <2>4. BootData(machine) = Render(distro, class.format, class.additional)
    BY <2>2, <2>3, AgentReadsRendered DEF BootData
  <2> DEFINE add == class.additional.cfg
  <2>5. add.files \in Seq(STRING \X STRING) /\ add.commands \in Seq(STRING)
    BY <1>1, AdditionalTypes
  <2>6. \/ class.format = CloudConfig /\ BootData(machine) = RenderCloudConfig(Generate(distro), add)
        \/ BootData(machine) = RenderIgnition(Generate(distro), add)
    BY <2>1, <2>4 DEF Render
  <2>7. /\ class.format = CloudConfig => Merged(RenderCloudConfig(Generate(distro), add))
        /\ Merged(RenderIgnition(Generate(distro), add))
    BY <2>5, CloudConfigMerges, IgnitionMerges
  <2>8. QED
    BY <2>6, <2>7
<1>2. QED
  BY <1>1, PreparationInvariant, PTL
=============================================================================
