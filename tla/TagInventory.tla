---------------------------- MODULE TagInventory ----------------------------
(***************************************************************************)
(* pkg/providers/finder/tags.go: TagInstance of concurrent launches.  Tag  *)
(* categories and tags belong to the whole vCenter, so launches share      *)
(* them.  Each is looked up and, when the lookup gave any error, created;  *)
(* creation of what exists already is an error that ends the launch.  The  *)
(* pairs are visited in map order, which is any order.                     *)
(* A failed creation may have happened (its answer was lost).              *)
(***************************************************************************)
EXTENDS Naturals

CONSTANTS
  Launches,    \* launches that run at the same time
  Wanted,      \* instanceTags of each: a set of <<key, value>> pairs
  MaxFaults    \* bound: failed calls

ASSUME TagConstants ==
  /\ Launches # {} /\ \A l \in Launches : Wanted[l] # {}
  /\ MaxFaults \in Nat

VARIABLES
  categories,  \* names of the categories in vCenter
  tags,        \* <<category, value>> of the tags in vCenter
  st,          \* the next step of each launch
  todo,        \* pairs it has not visited yet
  at,          \* the pair it visits, with the category's name for its key
  tagIDs,      \* tags collected for the machine
  attached,    \* tags attached to the machine
  faults

vars == <<categories, tags, st, todo, at, tagIDs, attached, faults>>

ZoneLabel == "topology.kubernetes.io/zone"
ZoneCategory == "k8s-zone"

\* "Normalize Vsphere tag to fullfil CPI requirements"
CategoryOf(key) == IF key = ZoneLabel THEN ZoneCategory ELSE key

\* Mutant of KeyOf: the zone category is not renamed back.
MutantKeyAsIs(category) == category

\* extractTagInfo renames it back.
KeyOf(category) == IF category = ZoneCategory THEN ZoneLabel ELSE category

NoPair == <<"none", "none">>
WantedPairs == UNION { Wanted[l] : l \in Launches }
Pairs == { <<CategoryOf(p[1]), p[2]>> : p \in WantedPairs }
Names == { p[1] : p \in Pairs }

Init ==
  /\ categories \in SUBSET Names
  /\ tags \in SUBSET { p \in Pairs : p[1] \in categories }
  /\ st = [l \in Launches |-> "category"]
  /\ todo = [l \in Launches |-> Wanted[l]]
  /\ at = [l \in Launches |-> NoPair]
  /\ tagIDs = [l \in Launches |-> {}]
  /\ attached = [l \in Launches |-> {}]
  /\ faults = 0

Fault == faults < MaxFaults /\ faults' = faults + 1
Goto(l, step) == st' = [st EXCEPT ![l] = step]

Visit(l, p) ==
  /\ todo' = [todo EXCEPT ![l] = @ \ {p}]
  /\ at' = [at EXCEPT ![l] = <<CategoryOf(p[1]), p[2]>>]

\* Mutant of GetCategory: the category is created without a lookup.
MutantNoLookup(l) ==
  /\ st[l] = "category"
  /\ \E p \in todo[l] : Visit(l, p)
  /\ Goto(l, "create category")
  /\ UNCHANGED <<faults, categories, tags, tagIDs, attached>>

\* CreateOrUpdateCategory, the lookup.
GetCategory(l) ==
  /\ st[l] = "category"
  /\ \E p \in todo[l] :
       /\ Visit(l, p)
       /\ \/ /\ Goto(l, IF CategoryOf(p[1]) \in categories THEN "tag" ELSE "create category")
             /\ UNCHANGED faults
          \/ Fault /\ Goto(l, "create category")
  /\ UNCHANGED <<categories, tags, tagIDs, attached>>

\* CreateOrUpdateCategory, the creation.
CreateCategory(l) ==
  LET name == at[l][1] IN
  /\ st[l] = "create category"
  /\ \/ /\ name \notin categories /\ categories' = categories \cup {name}
        /\ Goto(l, "tag") /\ UNCHANGED faults
     \/ name \in categories /\ Goto(l, "failed") /\ UNCHANGED <<categories, faults>>
     \/ Fault /\ Goto(l, "failed") /\ categories' \in {categories, categories \cup {name}}
  /\ UNCHANGED <<tags, todo, at, tagIDs, attached>>

\* Mutant of Collect: the category's ID is appended in place of the tag's.
MutantCollectCategory(l) ==
  /\ tagIDs' = [tagIDs EXCEPT ![l] = @ \cup {<<at[l][1], at[l][1]>>}]
  /\ at' = [at EXCEPT ![l] = NoPair]
  /\ Goto(l, IF todo[l] = {} THEN "attach" ELSE "category")

\* The ID of the visited tag is appended to tagIDs.
Collect(l) ==
  /\ tagIDs' = [tagIDs EXCEPT ![l] = @ \cup {at[l]}]
  /\ at' = [at EXCEPT ![l] = NoPair]
  /\ Goto(l, IF todo[l] = {} THEN "attach" ELSE "category")

\* GetOrCreateTag, the lookup.
GetTag(l) ==
  /\ st[l] = "tag"
  /\ \/ at[l] \in tags /\ Collect(l) /\ UNCHANGED faults
     \/ at[l] \notin tags /\ Goto(l, "create tag") /\ UNCHANGED <<tagIDs, at, faults>>
     \/ Fault /\ Goto(l, "create tag") /\ UNCHANGED <<tagIDs, at>>
  /\ UNCHANGED <<categories, tags, todo, attached>>

\* GetOrCreateTag, the creation.
CreateTag(l) ==
  /\ st[l] = "create tag"
  /\ \/ at[l] \notin tags /\ tags' = tags \cup {at[l]} /\ Collect(l) /\ UNCHANGED faults
     \/ at[l] \in tags /\ Goto(l, "failed") /\ UNCHANGED <<tags, tagIDs, at, faults>>
     \/ /\ Fault /\ Goto(l, "failed") /\ UNCHANGED <<tagIDs, at>>
        /\ tags' \in {tags, tags \cup {at[l]}}
  /\ UNCHANGED <<categories, todo, attached>>

\* TagInstance attaches the collected tags; a second time changes nothing.
AttachTag(l) ==
  /\ st[l] = "attach"
  /\ \E t \in tagIDs[l] \ attached[l] :
       \/ /\ attached' = [attached EXCEPT ![l] = @ \cup {t}]
          /\ Goto(l, IF tagIDs[l] = attached[l] \cup {t} THEN "done" ELSE "attach")
          /\ UNCHANGED faults
       \/ /\ Fault /\ Goto(l, "failed")
          /\ attached' \in {attached, [attached EXCEPT ![l] = @ \cup {t}]}
  /\ UNCHANGED <<categories, tags, todo, at, tagIDs>>

Next ==
  \E l \in Launches :
    GetCategory(l) \/ CreateCategory(l) \/ GetTag(l) \/ CreateTag(l) \/ AttachTag(l)

Spec == Init /\ [][Next]_vars

(* Properties -------------------------------------------------------------*)

Steps == {"category", "create category", "tag", "create tag", "attach", "done", "failed"}

\* Every variable stays within its type, and a launch visits wanted pairs.
TypeOK ==
  /\ categories \subseteq Names /\ tags \subseteq Pairs
  /\ st \in [Launches -> Steps]
  /\ todo \in [Launches -> SUBSET WantedPairs]
  /\ at \in [Launches -> Pairs \cup {NoPair}]
  /\ \A l \in Launches : st[l] \in {"create category", "tag", "create tag"} => at[l] \in Pairs
  /\ tagIDs \in [Launches -> SUBSET Pairs]
  /\ attached \in [Launches -> SUBSET Pairs]
  /\ faults \in 0 .. MaxFaults

\* The lookups and creations of concurrent launches race, and the loser of a
\* race fails; but they never fail all of one another: without a failed call
\* at least one launch gets its tags (CreateOrUpdateTags).
SomeLaunchSurvives == faults = 0 => \E l \in Launches : st[l] # "failed"

\* A tag that another launch created meanwhile is the only reason to fail: a
\* race needs a tag or a category that did not exist at the start.
WarmLaunchesSucceed ==
  (categories = Names /\ tags = Pairs) =>
    [](faults = 0 => \A l \in Launches : st[l] # "failed")

\* What TagsFromVM can give for a key of a machine, in some order of its tags.
ReadBack(l, key) == { t[2] : t \in { a \in attached[l] : KeyOf(a[1]) = key } }

\* A tagged machine reads back the tags it was given: the node pool, size and
\* zone of the instance that List and Get return are those of the launch.
\* The two zone keys share one category.
TagsReadBack ==
  \A l \in Launches :
    st[l] = "done" =>
      \A p \in Wanted[l] : p[1] # ZoneCategory => ReadBack(l, p[1]) = {p[2]}

(* The inductive invariant ------------------------------------------------*)

\* The launch cannot lose a race over what it looked up last.
Ahead(l) ==
  /\ st[l] # "failed"
  /\ st[l] = "create category" => at[l][1] \notin categories
  /\ st[l] = "create tag" => at[l] \notin tags

\* Whoever created something last is ahead: it looks things up anew.
SomeoneAhead == faults = 0 => \E l \in Launches : Ahead(l)
=============================================================================
