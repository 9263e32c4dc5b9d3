------------------------ MODULE TagInventoryProofs ------------------------
(***************************************************************************)
(* Proofs about TagInventory, for any number of launches and any tags.     *)
(***************************************************************************)
EXTENDS TagInventory, TLAPS

\* A launch that visits a wanted pair visits it under its category.
LEMMA PairWanted ==
  ASSUME NEW p \in WantedPairs
  PROVE  <<CategoryOf(p[1]), p[2]>> \in Pairs
BY DEF Pairs

LEMMA NameWanted ==
  ASSUME NEW q \in Pairs
  PROVE  q[1] \in Names
BY DEF Names

LEMMA TypeInit == Init => TypeOK
<1> SUFFICES ASSUME Init PROVE TypeOK
  OBVIOUS
<1>1. todo \in [Launches -> SUBSET WantedPairs]
  BY DEF Init, WantedPairs
<1> QED BY <1>1, TagConstants DEF Init, TypeOK, Steps

LEMMA FaultTyped ==
  ASSUME faults \in 0 .. MaxFaults, Fault \/ UNCHANGED faults
  PROVE  faults' \in 0 .. MaxFaults
BY TagConstants DEF Fault

LEMMA FaultsCount ==
  ASSUME TypeOK, faults' = 0
  PROVE  ~ Fault
<1>1. faults \in 0 .. MaxFaults
  BY DEF TypeOK
<1>2. faults + 1 # 0
  BY <1>1
<1> QED BY <1>2 DEF Fault

\* Every step keeps the types.
LEMMA TypeNext == TypeOK /\ [Next]_vars => TypeOK'
<1> SUFFICES ASSUME TypeOK, [Next]_vars PROVE TypeOK'
  OBVIOUS
<1>1. ASSUME NEW l \in Launches, GetCategory(l) PROVE TypeOK'
  <2>1. PICK p \in todo[l] :
          /\ Visit(l, p)
          /\ \/ /\ Goto(l, IF CategoryOf(p[1]) \in categories THEN "tag" ELSE "create category")
                /\ UNCHANGED faults
             \/ Fault /\ Goto(l, "create category")
    BY <1>1 DEF GetCategory
  <2>2. p \in WantedPairs
    BY DEF TypeOK
  <2>3. <<CategoryOf(p[1]), p[2]>> \in Pairs
    BY <2>2, PairWanted
  <2>4. at' = [at EXCEPT ![l] = <<CategoryOf(p[1]), p[2]>>]
    BY <2>1 DEF Visit
  <2>5. st' = [st EXCEPT ![l] = "tag"] \/ st' = [st EXCEPT ![l] = "create category"]
    BY <2>1 DEF Goto
  <2>6. todo' \in [Launches -> SUBSET WantedPairs]
    BY <2>1 DEF Visit, TypeOK
  <2>7. faults' \in 0 .. MaxFaults
    BY <2>1, FaultTyped DEF TypeOK
  <2> QED BY <1>1, <2>3, <2>4, <2>5, <2>6, <2>7 DEF GetCategory, TypeOK, Steps
<1>2. ASSUME NEW l \in Launches, CreateCategory(l) PROVE TypeOK'
  <2>1. at[l][1] \in Names
    BY <1>2, NameWanted DEF CreateCategory, TypeOK
  <2>2. faults' \in 0 .. MaxFaults
    BY <1>2, FaultTyped DEF CreateCategory, TypeOK
  <2>3. categories' \subseteq Names
    BY <1>2, <2>1 DEF CreateCategory, TypeOK
  <2>4. st' = [st EXCEPT ![l] = "tag"] \/ st' = [st EXCEPT ![l] = "failed"]
    BY <1>2 DEF CreateCategory, Goto
  <2> QED BY <1>2, <2>2, <2>3, <2>4 DEF CreateCategory, TypeOK, Steps
<1>3. ASSUME NEW l \in Launches, at[l] \in Pairs, Collect(l)
      PROVE  /\ tagIDs' \in [Launches -> SUBSET Pairs]
             /\ at' \in [Launches -> Pairs \cup {NoPair}]
             /\ st' \in [Launches -> Steps]
             /\ \A k \in Launches :
                  st'[k] \in {"create category", "tag", "create tag"} => at'[k] \in Pairs
  <2>1. st' = [st EXCEPT ![l] = "attach"] \/ st' = [st EXCEPT ![l] = "category"]
    BY <1>3 DEF Collect, Goto
  <2> QED BY <1>3, <2>1 DEF Collect, TypeOK, Steps
<1>4. ASSUME NEW l \in Launches, GetTag(l) PROVE TypeOK'
  <2>1. at[l] \in Pairs
    BY <1>4 DEF GetTag, TypeOK
  <2>2. faults' \in 0 .. MaxFaults
    BY <1>4, FaultTyped DEF GetTag, TypeOK
  <2>3. CASE Collect(l)
    BY <1>3, <1>4, <2>1, <2>2, <2>3 DEF GetTag, TypeOK
  <2>4. CASE Goto(l, "create tag") /\ UNCHANGED <<tagIDs, at>>
    BY <1>4, <2>1, <2>2, <2>4 DEF GetTag, Goto, TypeOK, Steps
  <2> QED BY <1>4, <2>3, <2>4 DEF GetTag
<1>5. ASSUME NEW l \in Launches, CreateTag(l) PROVE TypeOK'
  <2>1. at[l] \in Pairs
    BY <1>5 DEF CreateTag, TypeOK
  <2>2. faults' \in 0 .. MaxFaults
    BY <1>5, FaultTyped DEF CreateTag, TypeOK
  <2>3. tags' \subseteq Pairs
    BY <1>5, <2>1 DEF CreateTag, TypeOK
  <2>4. CASE Collect(l)
    BY <1>3, <1>5, <2>1, <2>2, <2>3, <2>4 DEF CreateTag, TypeOK
  <2>5. CASE Goto(l, "failed") /\ UNCHANGED <<tagIDs, at>>
    BY <1>5, <2>2, <2>3, <2>5 DEF CreateTag, Goto, TypeOK, Steps
  <2> QED BY <1>5, <2>4, <2>5 DEF CreateTag
<1>6. ASSUME NEW l \in Launches, AttachTag(l) PROVE TypeOK'
  <2>1. faults' \in 0 .. MaxFaults
    BY <1>6, FaultTyped DEF AttachTag, TypeOK
  <2>2. PICK t \in tagIDs[l] \ attached[l] :
          /\ attached' \in {attached, [attached EXCEPT ![l] = @ \cup {t}]}
          /\ \/ Goto(l, IF tagIDs[l] = attached[l] \cup {t} THEN "done" ELSE "attach")
             \/ Goto(l, "failed")
    BY <1>6 DEF AttachTag
  <2>3. t \in Pairs
    BY DEF TypeOK
  <2>4. attached' \in [Launches -> SUBSET Pairs]
    <3>1. attached \in [Launches -> SUBSET Pairs] /\ attached[l] \cup {t} \in SUBSET Pairs
      BY <2>3 DEF TypeOK
    <3>2. [attached EXCEPT ![l] = @ \cup {t}] \in [Launches -> SUBSET Pairs]
      BY <3>1
    <3> QED BY <2>2, <3>1, <3>2
  <2>5. \/ st' = [st EXCEPT ![l] = "done"]
        \/ st' = [st EXCEPT ![l] = "attach"]
        \/ st' = [st EXCEPT ![l] = "failed"]
    BY <2>2 DEF Goto
  <2> QED BY <1>6, <2>1, <2>4, <2>5 DEF AttachTag, TypeOK, Steps
<1>7. CASE UNCHANGED vars
  BY <1>7 DEF vars, TypeOK
<1> QED BY <1>1, <1>2, <1>4, <1>5, <1>6, <1>7 DEF Next

\* The types of the tagging steps, for any set of launches and wanted tags.
THEOREM TagTypesCorrect == Spec => []TypeOK
<1>1. QED BY TypeInit, TypeNext, PTL DEF Spec

(* Races ------------------------------------------------------------------*)

LEMMA AheadInit == Init => SomeoneAhead
BY TagConstants DEF Init, SomeoneAhead, Ahead

\* A launch k that is ahead stays ahead while another launch l takes a step
\* that creates nothing.
LEMMA AheadStays ==
  ASSUME TypeOK, NEW k \in Launches, Ahead(k), NEW l \in Launches, l # k,
         UNCHANGED <<categories, tags>>,
         st'[k] = st[k], at'[k] = at[k]
  PROVE  Ahead(k)'
BY DEF Ahead

\* Every step leaves someone ahead: a launch that creates a tag or a category
\* is ahead afterwards, and a step that creates nothing puts only the launch
\* that takes it behind, which it does not when that launch was ahead.
LEMMA AheadNext == TypeOK /\ SomeoneAhead /\ [Next]_vars => SomeoneAhead'
<1> SUFFICES ASSUME TypeOK, SomeoneAhead, [Next]_vars, faults' = 0
             PROVE  \E l \in Launches : Ahead(l)'
  BY DEF SomeoneAhead
<1>0. CASE UNCHANGED vars
  BY <1>0 DEF vars, SomeoneAhead, Ahead
<1> SUFFICES ASSUME Next PROVE \E l \in Launches : Ahead(l)'
  BY <1>0
<1>1. ~ Fault
  BY FaultsCount
<1>2. PICK l \in Launches :
        GetCategory(l) \/ CreateCategory(l) \/ GetTag(l) \/ CreateTag(l) \/ AttachTag(l)
  BY DEF Next
<1>3. faults = 0
  BY <1>1, <1>2 DEF GetCategory, CreateCategory, GetTag, CreateTag, AttachTag
<1>4. PICK k \in Launches : Ahead(k)
  BY <1>3 DEF SomeoneAhead
<1>5. \A j \in Launches : j # l => st'[j] = st[j] /\ at'[j] = at[j]
  <2>1. CASE GetCategory(l)
    BY <2>1 DEF GetCategory, Visit, Goto, TypeOK
  <2>2. CASE CreateCategory(l)
    BY <2>2 DEF CreateCategory, Goto, TypeOK
  <2>3. CASE GetTag(l)
    BY <2>3 DEF GetTag, Collect, Goto, TypeOK
  <2>4. CASE CreateTag(l)
    BY <2>4 DEF CreateTag, Collect, Goto, TypeOK
  <2>5. CASE AttachTag(l)
    BY <2>5 DEF AttachTag, Goto, TypeOK
  <2> QED BY <1>2, <2>1, <2>2, <2>3, <2>4, <2>5
<1>6. CASE GetCategory(l)
  <2>1. PICK p \in todo[l] :
          /\ at' = [at EXCEPT ![l] = <<CategoryOf(p[1]), p[2]>>]
          /\ Goto(l, IF CategoryOf(p[1]) \in categories THEN "tag" ELSE "create category")
    BY <1>1, <1>6 DEF GetCategory, Visit
  <2>2. at'[l][1] = CategoryOf(p[1])
    BY <2>1 DEF TypeOK
  <2>3. /\ st'[l] \in {"tag", "create category"}
        /\ st'[l] = "create category" => CategoryOf(p[1]) \notin categories
    BY <2>1 DEF Goto, TypeOK
  <2>4. Ahead(l)'
    BY <1>6, <2>2, <2>3 DEF GetCategory, Ahead
  <2> QED BY <2>4
<1>7. CASE CreateCategory(l) /\ at[l][1] \notin categories
  <2>1. Ahead(l)'
    BY <1>1, <1>7 DEF CreateCategory, Goto, Ahead, TypeOK
  <2> QED BY <2>1
<1>8. CASE CreateCategory(l) /\ at[l][1] \in categories
  <2>1. l # k
    BY <1>4, <1>8 DEF Ahead, CreateCategory
  <2>2. UNCHANGED <<categories, tags>>
    BY <1>1, <1>8 DEF CreateCategory
  <2> QED BY <1>4, <1>5, <2>1, <2>2, AheadStays
<1>9. CASE GetTag(l)
  <2>1. Ahead(l)'
    BY <1>1, <1>9 DEF GetTag, Collect, Goto, Ahead, TypeOK
  <2> QED BY <2>1
<1>10. CASE CreateTag(l) /\ at[l] \notin tags
  <2>1. Ahead(l)'
    BY <1>1, <1>10 DEF CreateTag, Collect, Goto, Ahead, TypeOK
  <2> QED BY <2>1
<1>11. CASE CreateTag(l) /\ at[l] \in tags
  <2>1. l # k
    BY <1>4, <1>11 DEF Ahead, CreateTag
  <2>2. UNCHANGED <<categories, tags>>
    BY <1>1, <1>11 DEF CreateTag
  <2> QED BY <1>4, <1>5, <2>1, <2>2, AheadStays
<1>12. CASE AttachTag(l)
  <2>1. Ahead(l)'
    BY <1>1, <1>12 DEF AttachTag, Goto, Ahead, TypeOK
  <2> QED BY <2>1
<1> QED BY <1>2, <1>6, <1>7, <1>8, <1>9, <1>10, <1>11, <1>12

\* However many launches race for new tags and categories, and in whatever
\* order each visits its own, they never fail all of one another.
THEOREM RacingLaunchesSurvive == Spec => []SomeLaunchSurvives
<1>1. SomeoneAhead => SomeLaunchSurvives
  BY DEF SomeoneAhead, SomeLaunchSurvives, Ahead
<1> QED BY <1>1, TypeInit, TypeNext, AheadInit, AheadNext, PTL DEF Spec

(* A warm inventory -------------------------------------------------------*)

\* Nothing is missing, so no launch creates anything unless a call failed.
WarmInv ==
  /\ categories = Names /\ tags = Pairs
  /\ faults = 0 => \A l \in Launches : st[l] \notin {"create category", "create tag", "failed"}

LEMMA WarmNext == TypeOK /\ WarmInv /\ [Next]_vars => WarmInv'
<1> SUFFICES ASSUME TypeOK, WarmInv, [Next]_vars PROVE WarmInv'
  OBVIOUS
<1>0. CASE UNCHANGED vars
  BY <1>0 DEF vars, WarmInv
<1> SUFFICES ASSUME NEW l \in Launches,
                    GetCategory(l) \/ CreateCategory(l) \/ GetTag(l) \/ CreateTag(l) \/ AttachTag(l)
             PROVE  WarmInv'
  BY <1>0 DEF Next
<1>1. categories' = Names
  <2>1. st[l] = "create category" => at[l][1] \in Names
    BY NameWanted DEF TypeOK
  <2>2. QED
    BY <2>1 DEF WarmInv, GetCategory, CreateCategory, GetTag, CreateTag, AttachTag
<1>2. tags' = Pairs
  <2>1. st[l] = "create tag" => at[l] \in Pairs
    BY DEF TypeOK
  <2>2. QED
    BY <2>1 DEF WarmInv, GetCategory, CreateCategory, GetTag, CreateTag, AttachTag
<1>3. ASSUME faults' = 0, NEW k \in Launches
      PROVE  st'[k] \notin {"create category", "create tag", "failed"}
  <2>1. ~ Fault
    BY <1>3, FaultsCount
  <2>2. faults = 0
    BY <1>3, <2>1 DEF GetCategory, CreateCategory, GetTag, CreateTag, AttachTag
  <2>3. \A j \in Launches : st[j] \notin {"create category", "create tag", "failed"}
    BY <2>2 DEF WarmInv
  <2>4. CASE GetCategory(l)
    <3>1. PICK p \in todo[l] :
            Goto(l, IF CategoryOf(p[1]) \in categories THEN "tag" ELSE "create category")
      BY <2>1, <2>4 DEF GetCategory
    <3>2. <<CategoryOf(p[1]), p[2]>> \in Pairs
      BY PairWanted DEF TypeOK
    <3>3. CategoryOf(p[1]) \in Names
      BY <3>2, NameWanted
    <3>4. st' = [st EXCEPT ![l] = "tag"]
      BY <3>1, <3>3 DEF Goto, WarmInv
    <3>5. QED
      BY <2>3, <3>4 DEF TypeOK
  <2>5. CASE GetTag(l)
    <3>1. at[l] \in tags
      BY <2>5 DEF GetTag, TypeOK, WarmInv
    <3>2. st' = [st EXCEPT ![l] = "attach"] \/ st' = [st EXCEPT ![l] = "category"]
      BY <2>1, <2>5, <3>1 DEF GetTag, Collect, Goto
    <3>3. QED
      BY <2>3, <3>2 DEF TypeOK
  <2>6. CASE CreateCategory(l) \/ CreateTag(l)
    BY <2>3, <2>6 DEF CreateCategory, CreateTag
  <2>7. CASE AttachTag(l)
    <3>1. st' = [st EXCEPT ![l] = "done"] \/ st' = [st EXCEPT ![l] = "attach"]
      BY <2>1, <2>7 DEF AttachTag, Goto
    <3>2. QED
      BY <2>3, <3>1 DEF TypeOK
  <2>8. QED
    BY <2>4, <2>5, <2>6, <2>7
<1>4. QED
  BY <1>1, <1>2, <1>3 DEF WarmInv

\* Launches whose tags and categories all exist at the start never fail one
\* another: a race needs something new.
THEOREM WarmLaunchesAreSafe == Spec => WarmLaunchesSucceed
<1>1. Init /\ categories = Names /\ tags = Pairs => WarmInv
  BY DEF Init, WarmInv
<1>2. WarmInv => (faults = 0 => \A l \in Launches : st[l] # "failed")
  BY DEF WarmInv
<1> QED BY <1>1, <1>2, TypeInit, TypeNext, WarmNext, PTL DEF Spec, WarmLaunchesSucceed

(* Reading the tags back --------------------------------------------------*)

\* instanceTags is a map, and the two keys of the zone agree when both are set.
OneValuePerCategory ==
  \A l \in Launches : \A p \in Wanted[l], q \in Wanted[l] :
    CategoryOf(p[1]) = CategoryOf(q[1]) => p[2] = q[2]

InCategory(p) == <<CategoryOf(p[1]), p[2]>>

\* The tags of the pairs that the launch has visited.
Visited(l) == { InCategory(p) : p \in Wanted[l] \ todo[l] }

\* A launch has collected what it visited, except for the pair it is at, goes
\* on to attach when it visited all, and ends when it attached all.
CollectInv ==
  \A l \in Launches :
    /\ todo[l] \subseteq Wanted[l]
    /\ st[l] \in {"category", "attach", "done"} => tagIDs[l] = Visited(l)
    /\ st[l] \in {"create category", "tag", "create tag"} => tagIDs[l] \cup {at[l]} = Visited(l)
    /\ st[l] \in {"attach", "done"} => todo[l] = {}
    /\ st[l] = "done" => attached[l] = tagIDs[l]

\* Other launches keep what is said about them.
LEMMA OthersKept ==
  ASSUME CollectInv, NEW k \in Launches, st'[k] = st[k], at'[k] = at[k], todo'[k] = todo[k],
         tagIDs'[k] = tagIDs[k], attached'[k] = attached[k]
  PROVE  /\ todo'[k] \subseteq Wanted[k]
         /\ st'[k] \in {"category", "attach", "done"} => tagIDs'[k] = Visited(k)'
         /\ st'[k] \in {"create category", "tag", "create tag"} =>
              tagIDs'[k] \cup {at'[k]} = Visited(k)'
         /\ st'[k] \in {"attach", "done"} => todo'[k] = {}
         /\ st'[k] = "done" => attached'[k] = tagIDs'[k]
BY DEF CollectInv, Visited

LEMMA CollectNext == TypeOK /\ CollectInv /\ [Next]_vars => CollectInv'
<1> SUFFICES ASSUME TypeOK, CollectInv, [Next]_vars PROVE CollectInv'
  OBVIOUS
<1>0. CASE UNCHANGED vars
  BY <1>0 DEF vars, CollectInv, Visited
<1> SUFFICES ASSUME NEW l \in Launches,
                    GetCategory(l) \/ CreateCategory(l) \/ GetTag(l) \/ CreateTag(l) \/ AttachTag(l)
             PROVE  CollectInv'
  BY <1>0 DEF Next
<1>1. ASSUME NEW k \in Launches, k # l
      PROVE  /\ st'[k] = st[k] /\ at'[k] = at[k] /\ todo'[k] = todo[k]
             /\ tagIDs'[k] = tagIDs[k] /\ attached'[k] = attached[k]
  <2>1. CASE GetCategory(l)
    BY <1>1, <2>1 DEF GetCategory, Visit, Goto, TypeOK
  <2>2. CASE CreateCategory(l)
    BY <1>1, <2>2 DEF CreateCategory, Goto, TypeOK
  <2>3. CASE GetTag(l)
    BY <1>1, <2>3 DEF GetTag, Collect, Goto, TypeOK
  <2>4. CASE CreateTag(l)
    BY <1>1, <2>4 DEF CreateTag, Collect, Goto, TypeOK
  <2>5. CASE AttachTag(l)
    BY <1>1, <2>5 DEF AttachTag, Goto, TypeOK
  <2> QED BY <2>1, <2>2, <2>3, <2>4, <2>5
<1> DEFINE Mine ==
      /\ todo'[l] \subseteq Wanted[l]
      /\ st'[l] \in {"category", "attach", "done"} => tagIDs'[l] = Visited(l)'
      /\ st'[l] \in {"create category", "tag", "create tag"} =>
           tagIDs'[l] \cup {at'[l]} = Visited(l)'
      /\ st'[l] \in {"attach", "done"} => todo'[l] = {}
      /\ st'[l] = "done" => attached'[l] = tagIDs'[l]
<1>2. SUFFICES Mine
  BY <1>1, OthersKept DEF CollectInv
<1>3. ASSUME at[l] \in Pairs, st[l] \in {"tag", "create tag"}, Collect(l), UNCHANGED <<todo, attached>>
      PROVE  Mine
  <2>1. tagIDs'[l] = tagIDs[l] \cup {at[l]} /\ Visited(l)' = Visited(l)
    BY <1>3 DEF Collect, Visited, TypeOK
  <2>2. tagIDs[l] \cup {at[l]} = Visited(l)
    BY <1>3 DEF CollectInv
  <2>3. \/ st'[l] = "attach" /\ todo[l] = {}
        \/ st'[l] = "category"
    BY <1>3 DEF Collect, Goto, TypeOK
  <2> QED BY <1>3, <2>1, <2>2, <2>3 DEF CollectInv
<1>4. ASSUME st'[l] = "failed", UNCHANGED todo PROVE Mine
  BY <1>4 DEF CollectInv
<1>5. ASSUME st[l] \in {"create category", "tag", "create tag"},
             st'[l] \in {"create category", "tag", "create tag"},
             UNCHANGED <<todo, at, tagIDs>>
      PROVE  Mine
  <2>1. Visited(l)' = Visited(l)
    BY <1>5 DEF Visited
  <2> QED BY <1>5, <2>1 DEF CollectInv
<1>6. CASE GetCategory(l)
  <2>1. PICK p \in todo[l] : Visit(l, p) /\ st'[l] \in {"tag", "create category"}
    BY <1>6 DEF GetCategory, Goto, TypeOK
  <2>2. todo'[l] = todo[l] \ {p} /\ at'[l] = InCategory(p) /\ tagIDs'[l] = tagIDs[l]
    BY <1>6, <2>1 DEF GetCategory, Visit, InCategory, TypeOK
  <2>3. tagIDs[l] = Visited(l) /\ todo[l] \subseteq Wanted[l]
    BY <1>6 DEF GetCategory, CollectInv
  <2>4. Visited(l)' = Visited(l) \cup {InCategory(p)}
    <3>1. Wanted[l] \ todo'[l] = (Wanted[l] \ todo[l]) \cup {p}
      BY <2>2, <2>3
    <3> QED BY <3>1 DEF Visited
  <2> QED BY <2>1, <2>2, <2>3, <2>4
<1>7. CASE CreateCategory(l)
  <2>1. st'[l] \in {"tag", "failed"} /\ st[l] = "create category" /\ UNCHANGED <<todo, at, tagIDs>>
    BY <1>7 DEF CreateCategory, Goto, TypeOK
  <2> QED BY <1>4, <1>5, <2>1
<1>8. CASE GetTag(l)
  <2>1. st[l] = "tag" /\ at[l] \in Pairs /\ UNCHANGED <<todo, attached>>
    BY <1>8 DEF GetTag, TypeOK
  <2>2. Collect(l) \/ (st'[l] = "create tag" /\ UNCHANGED <<at, tagIDs>>)
    BY <1>8 DEF GetTag, Goto, TypeOK
  <2> QED BY <1>3, <1>5, <2>1, <2>2
<1>9. CASE CreateTag(l)
  <2>1. st[l] = "create tag" /\ at[l] \in Pairs /\ UNCHANGED <<todo, attached>>
    BY <1>9 DEF CreateTag, TypeOK
  <2>2. Collect(l) \/ st'[l] = "failed"
    BY <1>9 DEF CreateTag, Goto, TypeOK
  <2> QED BY <1>3, <1>4, <2>1, <2>2
<1>10. CASE AttachTag(l)
  <2>1. st[l] = "attach" /\ UNCHANGED <<todo, at, tagIDs>>
    BY <1>10 DEF AttachTag
  <2>2. Visited(l)' = Visited(l)
    BY <2>1 DEF Visited
  <2>3. \/ st'[l] = "failed" \/ st'[l] = "attach"
        \/ st'[l] = "done" /\ attached'[l] = tagIDs[l]
    BY <1>10 DEF AttachTag, Goto, TypeOK
  <2> QED BY <1>4, <2>1, <2>2, <2>3 DEF CollectInv
<1> QED BY <1>6, <1>7, <1>8, <1>9, <1>10

\* What comes back under a key was wanted under that key, or under the other
\* one of the zone.
LEMMA KeysReadBack ==
  ASSUME NEW p, NEW q, p[1] # ZoneCategory, KeyOf(CategoryOf(q[1])) = p[1]
  PROVE  CategoryOf(p[1]) = CategoryOf(q[1])
BY DEF KeyOf, CategoryOf, ZoneCategory, ZoneLabel

LEMMA KeyOfOwnCategory ==
  ASSUME NEW key, key # ZoneCategory
  PROVE  KeyOf(CategoryOf(key)) = key
BY DEF KeyOf, CategoryOf, ZoneCategory, ZoneLabel

\* Whatever launches run beside it and in whatever order its tags are made, a
\* machine whose tagging ended reads back exactly the tags it was given.
THEOREM TagsAreReadBack == OneValuePerCategory => (Spec => []TagsReadBack)
<1> SUFFICES ASSUME OneValuePerCategory PROVE Spec => []TagsReadBack
  OBVIOUS
<1>1. Init => CollectInv
  <2>1. SUFFICES ASSUME Init PROVE CollectInv
    OBVIOUS
  <2>2. \A l \in Launches : Visited(l) = {}
    BY <2>1 DEF Init, Visited
  <2> QED BY <2>1, <2>2 DEF Init, CollectInv
<1>2. CollectInv => TagsReadBack
  <2>1. SUFFICES ASSUME CollectInv, NEW l \in Launches, st[l] = "done",
                        NEW p \in Wanted[l], p[1] # ZoneCategory
                 PROVE  ReadBack(l, p[1]) = {p[2]}
    BY DEF TagsReadBack
  <2>2. attached[l] = { InCategory(q) : q \in Wanted[l] }
    <3>1. attached[l] = Visited(l) /\ todo[l] = {}
      BY <2>1 DEF CollectInv
    <3>2. Wanted[l] \ todo[l] = Wanted[l]
      BY <3>1
    <3> QED BY <3>1, <3>2 DEF Visited
  <2>3. p[2] \in ReadBack(l, p[1])
    <3>1. InCategory(p) \in attached[l]
      BY <2>2
    <3>2. InCategory(p)[1] = CategoryOf(p[1]) /\ InCategory(p)[2] = p[2]
      BY DEF InCategory
    <3>3. KeyOf(InCategory(p)[1]) = p[1]
      BY <2>1, <3>2, KeyOfOwnCategory
    <3> QED BY <3>1, <3>2, <3>3 DEF ReadBack
  <2>4. ASSUME NEW v \in ReadBack(l, p[1]) PROVE v = p[2]
    <3>1. PICK a \in attached[l] : KeyOf(a[1]) = p[1] /\ v = a[2]
      BY DEF ReadBack
    <3>2. PICK q \in Wanted[l] : a = InCategory(q)
      BY <2>2
    <3>3. a[1] = CategoryOf(q[1]) /\ a[2] = q[2]
      BY <3>2 DEF InCategory
    <3>4. CategoryOf(p[1]) = CategoryOf(q[1])
      BY <2>1, <3>1, <3>3, KeysReadBack
    <3> QED BY <3>1, <3>3, <3>4 DEF OneValuePerCategory
  <2> QED BY <2>3, <2>4
<1> QED BY <1>1, <1>2, TypeInit, TypeNext, CollectNext, PTL DEF Spec
=============================================================================
