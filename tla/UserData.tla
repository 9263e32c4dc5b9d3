------------------------------ MODULE UserData ------------------------------
(***************************************************************************)
(* pkg/providers/userdata and GetInitData: what a new machine is told at   *)
(* its first boot.  A configuration is the list of the files to write, as  *)
(* <<path, content>>, the list of commands to run, the systemd units, as   *)
(* <<name, content>>, and the other keys of the document.  Contents and    *)
(* commands are atoms.                                                     *)
(***************************************************************************)
EXTENDS Integers, Sequences, SequencesExt

CloudConfig == "cloud-config"
Ignition == "ignition"

Empty == [files |-> <<>>, commands |-> <<>>, units |-> {}, other |-> {}]

JoinScript == "/etc/node-join.sh"
JoinUnit == <<"node-join.service", "runs the script once">>
JoinConfig == <<"/etc/rancher/rke2/config.yaml", "server, token, taints">>

\* Factory.Build knows three distributions and two formats; GetInitData
\* panics on kubeadm, whose generator is not implemented.
InitDataFails(distro, format) ==
  distro \notin {"rke2", "rke2airgapped"} \/ format \notin {CloudConfig, Ignition}

\* Generator.Generate of the others.
Generate(distro) ==
  [files |-> <<JoinConfig>>,
   commands |-> << "sleep", IF distro = "rke2" THEN "download" ELSE "install.sh",
                   "enable", "start" >>,
   units |-> {}, other |-> {}]

Paths(cfg) == { f[1] : f \in ToSet(cfg.files) }
UnitNames(cfg) == { u[1] : u \in cfg.units }

\* Mutant of RenderCloudConfig: additional files replace the generated ones.
MutantCloudReplaces(data, add) ==
  [data EXCEPT !.files = IF add.files = <<>> THEN @ ELSE add.files,
               !.commands = @ \o add.commands]

\* CloudConfigRenderer: of the additional document, only write_files and
\* runcmd are unmarshalled.
RenderCloudConfig(data, add) ==
  [data EXCEPT !.files = @ \o add.files, !.commands = @ \o add.commands]

\* ButaneRenderer: the commands become a script, which a unit of the template
\* runs; a merged file or unit replaces a generated one of its path or name.
\* The generators make one file.
RenderIgnition(data, add) ==
  LET Kept(f) == IF f[1] \in Paths(add) THEN <<>> ELSE <<f>>
  IN [files |-> Kept(Head(data.files)) \o Kept(<<JoinScript, data.commands>>) \o add.files,
      commands |-> <<>>,
      units |-> { u \in {JoinUnit} : u[1] \notin UnitNames(add) } \cup add.units,
      other |-> add.other]

\* Render.  additional is [parses, cfg]: the formats whose parser accepts the
\* document, and what it holds.  The result of an error is nil.
Render(distro, format, additional) ==
  IF format \notin additional.parses THEN Empty
  ELSE IF format = CloudConfig THEN RenderCloudConfig(Generate(distro), additional.cfg)
  ELSE RenderIgnition(Generate(distro), additional.cfg)

(* guestinfo, the properties through which the machine reads its data.     *)

\* SetIgnitionUserData, SetCloudConfigUserData.
UserDataKey(format) ==
  IF format = Ignition THEN "guestinfo.ignition.config.data" ELSE "guestinfo.userdata"

\* encode: one layer of Base64, whatever the text had.  These documents never
\* look encoded; nil becomes an empty value, which decodes to no document.
Encode(data) == [base64 |-> data]

\* setData; the key for the encoding, always "base64", is left out.
SetData(info, key, data) ==
  [k \in DOMAIN info \cup {key} |-> IF k = key THEN Encode(data) ELSE info[k]]

\* GetInitData where it does not fail: it does not look at Render's error.
GetInitData(distro, format, additional) ==
  LET user == SetData(<<>>, UserDataKey(format), Render(distro, format, additional))
  IN SetData(user, "guestinfo.metadata", "local-hostname")
=============================================================================
