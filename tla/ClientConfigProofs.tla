------------------------- MODULE ClientConfigProofs -------------------------
(***************************************************************************)
(* The types of ClientConfig and its properties OnlyOwnEntryChanges and    *)
(* AllOrNothing, for any sets of commands and launcher versions.           *)
(***************************************************************************)
EXTENDS ClientConfig, TLAPS

\* What a command knows: the action it carries out was offered for the state
\* it saw, that state is the one of the content and the record it goes by,
\* and until somebody else writes, the file is as its last check found it.
\* Only Claude's commands have a record to write.
Knows(c) ==
    /\ pc[c] \in {"rereading", "comparing"} \cup Applying =>
         action[c] \in Offered(seen[c])
    /\ pc[c] \in Applying =>
         seen[c] = Classify(base[c], record[c])
    /\ At(c, "committing") /\ c \notin raced => file = Expected(c)
    /\ pc[c] \in {"recording", "unrecording"} => client = "claude"

ConfigInv == TypeOK /\ \A c \in Commands : Knows(c)

-----------------------------------------------------------------------------
(* The operators on contents.                                              *)

\* Classify and Edited stay within their types.
LEMMA ClassifyType ==
    ASSUME NEW k, NEW r
    PROVE  Classify(k, r) \in States
BY DEF Classify, States

LEMMA EditedType ==
    ASSUME NEW k \in {None} \cup Contents, NEW a
    PROVE  Edited(k, a) \in Contents
<1> DEFINE e == Edited(k, a)
<1>1. e.entry \in {"none", "foreign"} \cup Recognized
  BY VersionAssumption DEF Edited
<1>2. e.marked \in BOOLEAN /\ (e.marked => client = "codex" /\ e.entry \in Recognized)
  BY VersionAssumption DEF Edited
<1>3. e.rest \in {"bare", "other"}
  BY DEF Edited, Contents, Shapes
<1>4. e = [entry |-> e.entry, marked |-> e.marked, rest |-> e.rest]
  BY DEF Edited
<1> QED BY <1>1, <1>2, <1>3, <1>4 DEF Contents, Shapes

\* What is offered is an action, and adopting is offered for an entry of a
\* recognised version only.
LEMMA OfferedType ==
    ASSUME NEW s \in States
    PROVE  Offered(s) \subseteq Actions
BY DEF Offered, States, Actions

LEMMA AdoptsRecognized ==
    ASSUME NEW k \in {None} \cup Contents, NEW r,
           "adopt" \in Offered(Classify(k, r))
    PROVE  k.entry \in Recognized
<1>1. Classify(k, r) = "compatible-unmanaged"
  BY ClassifyType DEF Offered, States
<1>2. k # None /\ k.entry # "none" /\ k.entry # "foreign"
  BY <1>1 DEF Classify
<1> QED BY <1>2 DEF Contents, Shapes

\* An entry for which something is offered is none, managed or to be adopted.
LEMMA OfferedMayTouch ==
    ASSUME NEW k \in {None} \cup Contents, NEW r, NEW a,
           a \in Offered(Classify(k, r))
    PROVE  \/ k = None
           \/ k.entry = "none"
           \/ k.entry \in Recognized /\ (a = "adopt" \/ Managed(k, r))
<1>1. CASE k = None \/ k.entry = "none"
  BY <1>1
<1>2. CASE k # None /\ k.entry = "foreign"
  <2>1. Classify(k, r) = "conflict"
    BY <1>2 DEF Classify
  <2> QED BY <2>1 DEF Offered
<1>3. CASE k # None /\ k.entry \in Recognized
  <2>1. CASE Managed(k, r)
    BY <1>3, <2>1
  <2>2. CASE ~Managed(k, r)
    <3>1. Classify(k, r) \in {"compatible-unmanaged", "conflict"}
      BY <1>3, <2>2, NameAssumption DEF Classify
    <3>2. a = "adopt"
      BY <3>1 DEF Offered
    <3> QED BY <1>3, <3>2
  <2> QED BY <2>1, <2>2
<1> QED BY <1>1, <1>2, <1>3 DEF Contents, Shapes

-----------------------------------------------------------------------------
(* The inductive invariant.                                                *)

LEMMA InitConfig == Init => ConfigInv
BY BoundAssumption
DEF Init, ConfigInv, TypeOK, Knows, At, Steps, States, Actions, Applying,
    Contents

\* The contents that replace and remove expect and leave are contents, and
\* what Record writes is a version or nothing.
LEMMA TargetType ==
    ASSUME TypeOK, NEW c \in Commands
    PROVE  Target(c) \in {None} \cup Contents
BY EditedType DEF TypeOK, Target

LEMMA VouchedType ==
    ASSUME TypeOK, NEW c \in Commands, Knows(c), At(c, "recording")
    PROVE  Vouched(c) \in {None} \cup Recognized
<1>1. action[c] \in Offered(Classify(base[c], record[c]))
  BY DEF Knows, At, Applying
<1>2. CASE action[c] = "adopt"
  BY <1>1, <1>2, AdoptsRecognized DEF TypeOK, Vouched
<1>3. CASE action[c] # "adopt"
  BY <1>3, VersionAssumption DEF Vouched
<1> QED BY <1>2, <1>3

LEMMA SameContents == [Next]_vars => client' = client /\ Contents' = Contents
<1>1. [Next]_vars => client' = client
  BY DEF Next, vars, Run, Read, Inspect, Choose, Cancel, Reread, Compare,
         Check, Recheck, Changed, Fails, Rename, Link, Unlink, Record,
         RecordFails, RestoreRecord,
         OthersWrite, HostEnds, Mutate, UnchangedWorld
<1> QED BY <1>1 DEF Contents

\* A mutation keeps the types.
LEMMA MutateType ==
    ASSUME TypeOK, client' = client, Contents' = Contents,
           NEW c \in Commands, At(c, "committing"), Mutate(c)
    PROVE  TypeOK'
<1>1. file' \in {None} \cup Contents
  BY TargetType DEF Mutate
<1>2. CASE Settle(c, "idle") \/ Settle(c, "done")
  <2>1. /\ pc' \in [Commands -> Steps]
        /\ base' \in [Commands -> {None} \cup Contents]
        /\ seen' \in [Commands -> States]
        /\ record' \in [Commands -> {None} \cup Recognized]
        /\ action' \in [Commands -> Actions]
        /\ undo' \in [Commands -> BOOLEAN]
    BY <1>2 DEF TypeOK, Settle, Steps, States, Actions
  <2>2. /\ \A d \in Commands \ {c} : pc'[d] = pc[d] /\ undo'[d] = undo[d]
        /\ ~undo'[c]
    BY <1>2 DEF TypeOK, Settle
  <2>3. \A d \in Commands :
          undo'[d] => pc'[d] \in {"preparing", "rechecking", "committing"}
    BY <2>2 DEF TypeOK
  <2>4. raced' \subseteq {d \in Commands : pc'[d] = "committing"}
    BY <2>2 DEF TypeOK, Mutate, Race, At
  <2> QED BY <1>1, <2>1, <2>3, <2>4 DEF TypeOK, Mutate, At
<1>3. CASE ~undo[c] /\ Goto(c, "recording")
  <2>1. pc' \in [Commands -> Steps] /\ UNCHANGED knowledge
    BY <1>3 DEF TypeOK, Goto, Steps, Applying
  <2>2. \A d \in Commands \ {c} : pc'[d] = pc[d]
    BY <1>3 DEF TypeOK, Goto
  <2>3. \A d \in Commands :
          undo'[d] => pc'[d] \in {"preparing", "rechecking", "committing"}
    BY <1>3, <2>1, <2>2 DEF TypeOK, knowledge
  <2>4. raced' \subseteq {d \in Commands : pc'[d] = "committing"}
    BY <2>2 DEF TypeOK, Mutate, Race, At
  <2> QED BY <1>1, <2>1, <2>3, <2>4 DEF TypeOK, Mutate, At, knowledge
<1> QED BY <1>2, <1>3 DEF Mutate

\* Every step keeps the types.
LEMMA TypeStep == ConfigInv /\ [Next]_vars => TypeOK'
<1> SUFFICES ASSUME ConfigInv, [Next]_vars
             PROVE  TypeOK'
  OBVIOUS
<1>0. client' = client /\ Contents' = Contents
  BY SameContents
<1> USE <1>0 DEF ConfigInv, TypeOK, At, knowledge, UnchangedWorld,
                 UnchangedHistory, Goto, Settle, Steps, Applying
<1>1. ASSUME NEW c \in Commands, Run(c)
     PROVE  TypeOK'
  BY <1>1 DEF Run, Working
<1>2. ASSUME NEW c \in Commands, Read(c)
     PROVE  TypeOK'
  BY <1>2 DEF Read
<1>3. ASSUME NEW c \in Commands, Inspect(c)
     PROVE  TypeOK'
  BY <1>3, ClassifyType DEF Inspect
<1>4. ASSUME NEW c \in Commands, Choose(c)
     PROVE  TypeOK'
  BY <1>4, OfferedType DEF Choose
<1>5. ASSUME NEW c \in Commands, Cancel(c)
     PROVE  TypeOK'
  BY <1>5 DEF Cancel, States, Actions
<1>6. ASSUME NEW c \in Commands, Reread(c)
     PROVE  TypeOK'
  BY <1>6 DEF Reread
<1>7. ASSUME NEW c \in Commands, Compare(c)
     PROVE  TypeOK'
  BY <1>7 DEF Compare
<1>8. ASSUME NEW c \in Commands, Check(c)
     PROVE  TypeOK'
  BY <1>8 DEF Check
<1>9. ASSUME NEW c \in Commands, Recheck(c)
     PROVE  TypeOK'
  BY <1>9 DEF Recheck
<1>10. ASSUME NEW c \in Commands, Changed(c)
     PROVE  TypeOK'
  BY <1>10 DEF Changed, States, Actions
<1>11. ASSUME NEW c \in Commands, Fails(c)
     PROVE  TypeOK'
  BY <1>11 DEF Fails, States, Actions
<1>12. ASSUME NEW c \in Commands, Rename(c)
     PROVE  TypeOK'
  BY <1>12, MutateType DEF Rename
<1>13. ASSUME NEW c \in Commands, Link(c)
     PROVE  TypeOK'
  BY <1>13, MutateType DEF Link
<1>14. ASSUME NEW c \in Commands, Unlink(c)
     PROVE  TypeOK'
  BY <1>14, MutateType DEF Unlink
<1>15. ASSUME NEW c \in Commands, Record(c)
     PROVE  TypeOK'
  <2>1. Knows(c) /\ client = "claude"
    BY <1>15 DEF Record, Knows
  <2>2. owner' \in {None} \cup Recognized
    BY <1>15, <2>1, VouchedType DEF Record
  <2> QED BY <1>15, <2>1, <2>2 DEF Record, States, Actions
<1>16. ASSUME NEW c \in Commands, RecordFails(c)
     PROVE  TypeOK'
  <2>1. Knows(c) /\ client = "claude"
    BY <1>16 DEF RecordFails, Knows
  <2>2. owner' \in {None} \cup Recognized
    BY <1>16, <2>1, VouchedType DEF RecordFails
  <2>3. CASE action[c] = "adopt"
    <3>1. Settle(c, "idle") /\ UNCHANGED <<client, file, edits, raced>>
      BY <1>16, <2>3 DEF RecordFails
    <3>2. pc'[c] = "idle" /\ \A d \in Commands : d # c => pc'[d] = pc[d]
      BY <3>1
    <3>3. raced' \subseteq {d \in Commands : pc'[d] = "committing"}
      BY <1>16, <3>1, <3>2 DEF RecordFails
    <3> QED BY <2>1, <2>2, <3>1, <3>3 DEF States, Actions
  <2>4. CASE action[c] # "adopt"
    BY <1>16, <2>1, <2>2, <2>4 DEF RecordFails, States, Actions
  <2> QED BY <2>3, <2>4
<1>17. ASSUME NEW c \in Commands, RestoreRecord(c)
     PROVE  TypeOK'
  <2>1. Knows(c) /\ client = "claude"
    BY <1>17 DEF RestoreRecord, Knows
  <2>2. owner' \in {None} \cup Recognized
    BY <1>17 DEF RestoreRecord
  <2> QED BY <1>17, <2>1, <2>2 DEF RestoreRecord
<1>18. CASE OthersWrite
  BY <1>18, BoundAssumption DEF OthersWrite
<1>19. CASE HostEnds
  BY <1>19 DEF HostEnds, States, Actions
<1>20. CASE UNCHANGED vars
  BY <1>20 DEF vars
<1> QED BY <1>1, <1>2, <1>3, <1>4, <1>5, <1>6, <1>7, <1>8, <1>9, <1>10, <1>11,
           <1>12, <1>13, <1>14, <1>15, <1>16, <1>17, <1>18, <1>19, <1>20
        DEF Next

\* A command that another one's step passes by: what it knows is unchanged,
\* and if the file changes at its last check it is marked as raced.
PassedBy(d) ==
    /\ pc'[d] = pc[d] /\ base'[d] = base[d] /\ seen'[d] = seen[d]
    /\ record'[d] = record[d] /\ action'[d] = action[d] /\ undo'[d] = undo[d]
    /\ At(d, "committing") /\ file' # file => d \in raced'
    /\ d \in raced => d \in raced'

LEMMA OthersPassedBy ==
    ASSUME TypeOK, NEW c \in Commands, NEW d \in Commands \ {c},
           \/ Run(c) \/ Read(c) \/ Inspect(c) \/ Choose(c) \/ Cancel(c)
           \/ Reread(c) \/ Compare(c) \/ Check(c) \/ Recheck(c)
           \/ Changed(c) \/ Fails(c) \/ Rename(c) \/ Link(c) \/ Unlink(c)
           \/ Record(c) \/ RecordFails(c) \/ RestoreRecord(c)
    PROVE  PassedBy(d)
<1> USE DEF TypeOK, PassedBy, knowledge, Goto, Settle, UnchangedWorld,
            UnchangedHistory
<1>1. CASE Run(c) \/ Read(c) \/ Inspect(c) \/ Choose(c) \/ Cancel(c)
  BY <1>1 DEF Run, Read, Inspect, Choose, Cancel
<1>2. CASE Reread(c) \/ Compare(c) \/ Check(c) \/ Recheck(c)
  BY <1>2 DEF Reread, Compare, Check, Recheck
<1>3. CASE Changed(c) \/ Fails(c)
  BY <1>3 DEF Changed, Fails
<1>4. CASE Rename(c) \/ Link(c) \/ Unlink(c)
  BY <1>4 DEF Rename, Link, Unlink, Mutate, Race
<1>5. CASE Record(c) \/ RecordFails(c) \/ RestoreRecord(c)
  BY <1>5 DEF Record, RecordFails, RestoreRecord
<1> QED BY <1>1, <1>2, <1>3, <1>4, <1>5

LEMMA PassedByKnows ==
    ASSUME NEW d \in Commands, Knows(d), PassedBy(d), client' = client
    PROVE  Knows(d)'
<1>1. Classify(base[d], record[d])' = Classify(base[d], record[d])
  BY DEF PassedBy, Classify, Managed
<1>2. Offered(seen[d])' = Offered(seen[d])
  BY DEF PassedBy
<1>3. Expected(d)' = Expected(d)
  BY DEF PassedBy, Expected, Edited
<1> QED BY <1>1, <1>2, <1>3 DEF Knows, PassedBy, At

\* A command that ends knows nothing and needs to know nothing.
LEMMA SettledKnows ==
    ASSUME TypeOK, NEW c \in Commands, Settle(c, "idle") \/ Settle(c, "done")
    PROVE  Knows(c)'
<1>1. pc'[c] \in {"idle", "done"}
  BY DEF TypeOK, Settle
<1> QED BY <1>1 DEF Knows, At, Applying

\* The command that takes a step knows what the next one relies on.
LEMMA OwnKnows ==
    ASSUME ConfigInv, client' = client, NEW c \in Commands,
           \/ Run(c) \/ Read(c) \/ Inspect(c) \/ Choose(c) \/ Cancel(c)
           \/ Reread(c) \/ Compare(c) \/ Check(c) \/ Recheck(c)
           \/ Changed(c) \/ Fails(c) \/ Rename(c) \/ Link(c) \/ Unlink(c)
           \/ Record(c) \/ RecordFails(c) \/ RestoreRecord(c)
    PROVE  Knows(c)'
<1> USE DEF ConfigInv
<1>1. CASE Run(c) \/ Read(c) \/ Inspect(c)
  <2>1. pc'[c] \in {"reading", "inspecting", "choosing"}
    BY <1>1 DEF TypeOK, Run, Read, Inspect, Goto
  <2> QED BY <2>1 DEF Knows, At, Applying
<1>2. CASE Choose(c)
  <2>1. pc'[c] = "rereading" /\ action'[c] \in Offered(seen[c]) /\ seen' = seen
    BY <1>2 DEF TypeOK, Choose
  <2> QED BY <2>1 DEF Knows, At, Applying
<1>3. CASE Reread(c)
  <2>1. pc[c] = "rereading" /\ pc'[c] = "comparing" /\ UNCHANGED <<seen, action>>
    BY <1>3 DEF TypeOK, Reread, Goto, At, knowledge
  <2> QED BY <2>1 DEF Knows, At, Applying
<1>4. CASE Compare(c)
  <2>1. /\ pc[c] = "comparing" /\ UNCHANGED <<base, seen, action>>
        /\ seen[c] = Classify(base[c], owner)
        /\ record'[c] = owner
        /\ pc'[c] = IF Writes(action[c]) THEN "preparing" ELSE "recording"
    BY <1>4 DEF TypeOK, Compare, At
  <2>2. Classify(base[c], record[c])' = Classify(base[c], owner)
    BY <2>1 DEF Classify, Managed
  <2>3. pc'[c] = "recording" => client = "claude"
    BY <2>1 DEF TypeOK, Writes
  <2> QED BY <2>1, <2>2, <2>3 DEF Knows, At, Applying
<1>5. CASE Check(c) \/ Recheck(c)
  <2>1. /\ \/ pc[c] = "preparing" /\ pc'[c] = "rechecking"
           \/ pc[c] = "rechecking" /\ pc'[c] = "committing"
        /\ UNCHANGED <<file, base, seen, record, action, undo>>
        /\ file = Expected(c)
    BY <1>5 DEF TypeOK, Check, Recheck, Goto, At, knowledge, UnchangedWorld
  <2>2. /\ Classify(base[c], record[c])' = Classify(base[c], record[c])
        /\ Expected(c)' = Expected(c)
    BY <2>1 DEF Classify, Managed, Expected, Edited
  <2> QED BY <2>1, <2>2 DEF Knows, At, Applying
<1>6. CASE Cancel(c) \/ Changed(c) \/ Fails(c) \/ Record(c)
  BY <1>6, SettledKnows DEF Cancel, Changed, Fails, Record
<1>7. CASE Rename(c) \/ Link(c) \/ Unlink(c)
  <2>1. At(c, "committing") /\ Mutate(c)
    BY <1>7 DEF Rename, Link, Unlink
  <2>2. CASE undo[c] \/ client = "codex"
    BY <2>1, <2>2, SettledKnows DEF Mutate
  <2>3. CASE ~undo[c] /\ client # "codex"
    <3>1. /\ pc[c] = "committing" /\ pc'[c] = "recording"
          /\ UNCHANGED knowledge /\ client = "claude"
      BY <2>1, <2>3 DEF TypeOK, Mutate, Goto, At
    <3>2. Classify(base[c], record[c])' = Classify(base[c], record[c])
      BY <3>1 DEF Classify, Managed, knowledge
    <3> QED BY <3>1, <3>2 DEF Knows, At, Applying, knowledge
  <2> QED BY <2>2, <2>3
<1>8. CASE RecordFails(c)
  <2>1. CASE action[c] = "adopt"
    BY <1>8, <2>1, SettledKnows DEF RecordFails
  <2>2. CASE action[c] # "adopt"
    <3>1. /\ pc[c] = "recording" /\ pc'[c] = "unrecording"
          /\ UNCHANGED knowledge
      BY <1>8, <2>2 DEF TypeOK, RecordFails, Goto, At
    <3>2. Classify(base[c], record[c])' = Classify(base[c], record[c])
      BY <3>1 DEF Classify, Managed, knowledge
    <3> QED BY <3>1, <3>2 DEF Knows, At, Applying, knowledge
  <2> QED BY <2>1, <2>2
<1>9. CASE RestoreRecord(c)
  <2>1. /\ pc[c] = "unrecording" /\ pc'[c] = "preparing"
        /\ UNCHANGED <<base, seen, record, action>>
    BY <1>9 DEF TypeOK, RestoreRecord, At
  <2>2. Classify(base[c], record[c])' = Classify(base[c], record[c])
    BY <2>1 DEF Classify, Managed
  <2> QED BY <2>1, <2>2 DEF Knows, At, Applying
<1> QED BY <1>1, <1>2, <1>3, <1>4, <1>5, <1>6, <1>7, <1>8, <1>9

LEMMA KnowsStep == ConfigInv /\ [Next]_vars => \A d \in Commands : Knows(d)'
<1> SUFFICES ASSUME ConfigInv, [Next]_vars, NEW d \in Commands
             PROVE  Knows(d)'
  OBVIOUS
<1>0. client' = client
  BY SameContents
<1>1. ASSUME NEW c \in Commands,
             \/ Run(c) \/ Read(c) \/ Inspect(c) \/ Choose(c) \/ Cancel(c)
             \/ Reread(c) \/ Compare(c) \/ Check(c) \/ Recheck(c)
             \/ Changed(c) \/ Fails(c) \/ Rename(c) \/ Link(c) \/ Unlink(c)
             \/ Record(c) \/ RecordFails(c) \/ RestoreRecord(c)
      PROVE  Knows(d)'
  <2>1. CASE d = c
    BY <1>0, <1>1, <2>1, OwnKnows
  <2>2. CASE d # c
    <3>1. PassedBy(d)
      BY <1>1, <2>2, OthersPassedBy DEF ConfigInv
    <3> QED BY <1>0, <3>1, PassedByKnows DEF ConfigInv
  <2> QED BY <2>1, <2>2
<1>2. CASE OthersWrite
  <2>1. PassedBy(d)
    BY <1>2 DEF OthersWrite, PassedBy, knowledge
  <2> QED BY <1>0, <2>1, PassedByKnows DEF ConfigInv
<1>3. CASE HostEnds
  <2>1. pc'[d] = "idle"
    BY <1>3 DEF HostEnds
  <2> QED BY <2>1 DEF Knows, At, Applying
<1>4. CASE UNCHANGED vars
  <2>1. PassedBy(d)
    BY <1>4 DEF vars, PassedBy, knowledge
  <2> QED BY <1>0, <2>1, PassedByKnows DEF ConfigInv
<1> QED BY <1>1, <1>2, <1>3, <1>4 DEF Next

LEMMA NextConfig == ConfigInv /\ [Next]_vars => ConfigInv'
BY TypeStep, KnowsStep DEF ConfigInv

LEMMA AlwaysConfig == Spec => []ConfigInv
BY InitConfig, NextConfig, PTL DEF Spec

-----------------------------------------------------------------------------
(* The theorems.                                                           *)

\* Types, for any number of commands (runCommand, externalClientCommands.ts).
THEOREM TypeCorrect == Spec => []TypeOK
BY AlwaysConfig, PTL DEF ConfigInv

\* Only one's own mutation changes the file at the last step of a command.
LEMMA ChangesMutates ==
    ASSUME TypeOK, [Next]_vars, NEW c \in Commands, Changes(c)
    PROVE  Rename(c) \/ Link(c) \/ Unlink(c)
<1>1. pc'[c] # pc[c] /\ file' # file /\ pc[c] = "committing"
  BY DEF Changes, At
<1>2. PICK d \in Commands :
        \/ Run(d) \/ Read(d) \/ Inspect(d) \/ Choose(d) \/ Cancel(d)
        \/ Reread(d) \/ Compare(d) \/ Check(d) \/ Recheck(d)
        \/ Changed(d) \/ Fails(d) \/ Rename(d) \/ Link(d) \/ Unlink(d)
        \/ Record(d) \/ RecordFails(d) \/ RestoreRecord(d)
  BY <1>1 DEF Next, vars, OthersWrite, HostEnds
<1>3. d = c
  BY <1>1, <1>2, OthersPassedBy DEF PassedBy
<1> QED
  BY <1>1, <1>2, <1>3
  DEF Run, Read, Inspect, Choose, Cancel, Reread, Compare, Check, Recheck,
      Changed, Fails, Record, RecordFails, RestoreRecord, UnchangedWorld

\* A command whose last check still holds may touch the file it found.
LEMMA CheckedMayTouch ==
    ASSUME ConfigInv, NEW c \in Commands, At(c, "committing"),
           file = Expected(c)
    PROVE  MayTouch(c)
<1>1. CASE undo[c]
  BY <1>1 DEF MayTouch
<1>2. CASE ~undo[c]
  <2>1. file = base[c]
    BY <1>2 DEF Expected
  <2>2. action[c] \in Offered(Classify(file, record[c]))
    BY <2>1 DEF ConfigInv, Knows, At, Applying
  <2> QED BY <2>2, OfferedMayTouch DEF ConfigInv, TypeOK, MayTouch
<1> QED BY <1>1, <1>2

\* What replace and remove expect and leave agree outside the entry.
LEMMA RestIsKept ==
    ASSUME TypeOK, NEW c \in Commands, Expected(c) # None, Target(c) # None
    PROVE  Target(c).rest = Expected(c).rest
BY DEF Expected, Target, Edited

\* An edit is never the absence of a file.
LEMMA EditedIsSome ==
    ASSUME TypeOK, NEW c \in Commands
    PROVE  Edited(base[c], action[c]) # None
BY EditedType, NoneAssumption DEF TypeOK, Contents

\* Every command, at every step, changes only what is its own to change
\* (AtomicWorkspaceFile, replace and remove, and the guards of apply).
THEOREM OwnEntry == Spec => OnlyOwnEntryChanges
<1> DEFINE Own(c) ==
      \/ c \in raced /\ Expected(c) # None
      \/ /\ file = Expected(c) /\ MayTouch(c)
         /\ file # None /\ file' # None => file'.rest = file.rest
<1>1. ASSUME ConfigInv, [Next]_vars, NEW c \in Commands, Changes(c)
      PROVE  Own(c)
  <2>1. At(c, "committing") /\ TypeOK
    BY <1>1 DEF Changes, ConfigInv
  <2>2. file' = Target(c) /\ (Rename(c) \/ Link(c) \/ Unlink(c))
    BY <1>1, <2>1, ChangesMutates DEF Rename, Link, Unlink, Mutate
  <2>3. CASE file = Expected(c)
    <3>1. MayTouch(c)
      BY <1>1, <2>1, <2>3, CheckedMayTouch
    <3>2. file # None /\ file' # None => file'.rest = file.rest
      BY <2>1, <2>2, <2>3, RestIsKept
    <3> QED BY <2>3, <3>1, <3>2
  <2>4. CASE file # Expected(c)
    <3>1. c \in raced
      BY <1>1, <2>1, <2>4 DEF ConfigInv, Knows
    <3>2. Expected(c) # None
      <4>1. CASE Rename(c)
        BY <4>1 DEF Rename
      <4>2. CASE Link(c)
        BY <2>4, <4>2 DEF Link
      <4>3. CASE Unlink(c)
        BY <2>1, <4>3, EditedIsSome DEF Unlink, Target, Expected
      <4> QED BY <2>2, <4>1, <4>2, <4>3
    <3> QED BY <3>1, <3>2
  <2> QED BY <2>3, <2>4
<1>2. ConfigInv /\ [Next]_vars
      => [\A c \in Commands : Changes(c) => Own(c)]_vars
  BY <1>1
<1> QED BY AlwaysConfig, <1>2, PTL DEF Spec, OnlyOwnEntryChanges

-----------------------------------------------------------------------------
(* All or nothing.                                                         *)

\* As long as nobody has disturbed a command, the file is what the command
\* read, and from its mutation on what it wrote; and the record is the one it
\* goes by whenever it has not been told to change it.
Intact(c) ==
    c \notin disturbed =>
      /\ pc[c] \in {"inspecting", "choosing", "rereading", "comparing"} =>
           file = base[c]
      /\ pc[c] \in {"preparing", "rechecking", "committing"} =>
           Writes(action[c]) /\ file = Expected(c) /\ owner = record[c]
      /\ pc[c] = "recording" =>
           /\ owner = record[c]
           /\ file = IF Writes(action[c]) THEN Edited(base[c], action[c])
                     ELSE base[c]
      /\ pc[c] = "unrecording" =>
           action[c] # "adopt" /\ file = Edited(base[c], action[c])

IntactInv == \A c \in Commands : Intact(c)

\* The steps of one command, under one name.
Moves(c) ==
    \/ Run(c) \/ Read(c) \/ Inspect(c) \/ Choose(c) \/ Cancel(c)
    \/ Reread(c) \/ Compare(c) \/ Check(c) \/ Recheck(c)
    \/ Changed(c) \/ Fails(c) \/ Rename(c) \/ Link(c) \/ Unlink(c)
    \/ Record(c) \/ RecordFails(c) \/ RestoreRecord(c)

\* Whoever writes the file or the record disturbs the others at work.
LEMMA WritesDisturb ==
    ASSUME TypeOK, NEW c \in Commands, NEW d \in Commands \ {c}, Moves(c),
           Working(d), d \notin disturbed'
    PROVE  d \notin disturbed /\ UNCHANGED <<file, owner>>
<1> USE DEF UnchangedWorld, UnchangedHistory
<1>1. CASE Run(c) \/ Read(c) \/ Inspect(c) \/ Choose(c) \/ Cancel(c)
  BY <1>1 DEF Run, Read, Inspect, Choose, Cancel
<1>2. CASE Reread(c) \/ Compare(c) \/ Check(c) \/ Recheck(c)
  BY <1>2 DEF Reread, Compare, Check, Recheck
<1>3. CASE Changed(c) \/ Fails(c)
  BY <1>3 DEF Changed, Fails
<1>4. CASE Rename(c) \/ Link(c) \/ Unlink(c)
  BY <1>4 DEF Rename, Link, Unlink, Mutate, Disturb
<1>5. CASE Record(c) \/ RecordFails(c) \/ RestoreRecord(c)
  BY <1>5 DEF Record, RecordFails, RestoreRecord, Disturb
<1> QED
  BY <1>1, <1>2, <1>3, <1>4, <1>5 DEF Moves

\* A command that is passed by while nothing is written stays intact.
LEMMA PassedByIntact ==
    ASSUME NEW d \in Commands, Intact(d), PassedBy(d), client' = client,
           Working(d) /\ d \notin disturbed'
             => d \notin disturbed /\ UNCHANGED <<file, owner>>
    PROVE  Intact(d)'
<1> SUFFICES ASSUME d \notin disturbed', Working(d)
             PROVE  Intact(d)'
  BY DEF Intact, Working, PassedBy
<1>1. /\ Expected(d)' = Expected(d) /\ (Writes(action[d])' <=> Writes(action[d]))
      /\ Edited(base[d], action[d])' = Edited(base[d], action[d])
  BY DEF PassedBy, Expected, Edited, Writes
<1> QED
  BY <1>1 DEF Intact, PassedBy

\* A command that ends has nothing to lose.
LEMMA SettledIntact ==
    ASSUME TypeOK, NEW c \in Commands, Settle(c, "idle") \/ Settle(c, "done")
    PROVE  Intact(c)'
<1>1. pc'[c] \in {"idle", "done"}
  BY DEF TypeOK, Settle
<1> QED
  BY <1>1 DEF Intact

\* The command that takes the step.
LEMMA OwnIntact ==
    ASSUME ConfigInv, client' = client, NEW c \in Commands, Intact(c), Moves(c)
    PROVE  Intact(c)'
<1> USE DEF ConfigInv
<1>1. CASE Run(c)
  <2>1. pc'[c] = "reading"
    BY <1>1 DEF TypeOK, Run, Goto
  <2> QED
    BY <2>1 DEF Intact
<1>2. CASE Read(c)
  <2>1. pc'[c] = "inspecting" /\ base'[c] = file /\ file' = file
    BY <1>2 DEF TypeOK, Read, UnchangedWorld
  <2> QED
    BY <2>1 DEF Intact
<1>3. CASE Inspect(c) \/ Choose(c) \/ Reread(c)
  <2>1. /\ pc[c] \in {"inspecting", "choosing", "rereading"}
        /\ pc'[c] \in {"choosing", "rereading", "comparing"}
        /\ UNCHANGED <<file, base, disturbed>>
    BY <1>3 DEF TypeOK, Inspect, Choose, Reread, Goto, At, knowledge,
                UnchangedWorld, UnchangedHistory
  <2> QED
    BY <2>1 DEF Intact
<1>4. CASE Compare(c)
  <2>1. /\ pc[c] = "comparing" /\ ~undo'[c]
        /\ pc'[c] = IF Writes(action[c]) THEN "preparing" ELSE "recording"
        /\ record'[c] = owner
        /\ UNCHANGED <<file, owner, base, action, disturbed>>
    BY <1>4 DEF TypeOK, Compare, At, UnchangedWorld, UnchangedHistory
  <2>2. Expected(c)' = base[c]
    BY <2>1 DEF Expected
  <2>3. Writes(action[c])' <=> Writes(action[c])
    BY <2>1 DEF Writes
  <2> QED
    BY <2>1, <2>2, <2>3 DEF Intact
<1>5. CASE Check(c) \/ Recheck(c)
  <2>1. /\ pc[c] \in {"preparing", "rechecking"}
        /\ pc'[c] \in {"rechecking", "committing"}
        /\ UNCHANGED <<file, owner, base, record, action, undo, disturbed>>
    BY <1>5 DEF TypeOK, Check, Recheck, Goto, At, knowledge, UnchangedWorld,
                UnchangedHistory
  <2>2. Expected(c)' = Expected(c) /\ (Writes(action[c])' <=> Writes(action[c]))
    BY <2>1 DEF Expected, Edited, Writes
  <2> QED
    BY <2>1, <2>2 DEF Intact
<1>6. CASE Cancel(c) \/ Changed(c) \/ Fails(c) \/ Record(c)
  BY <1>6, SettledIntact DEF Cancel, Changed, Fails, Record
<1>7. CASE Rename(c) \/ Link(c) \/ Unlink(c)
  <2>1. At(c, "committing") /\ Mutate(c)
    BY <1>7 DEF Rename, Link, Unlink
  <2>2. CASE undo[c] \/ client = "codex"
    BY <2>1, <2>2, SettledIntact DEF Mutate
  <2>3. CASE ~undo[c] /\ client # "codex"
    <3>1. /\ pc[c] = "committing" /\ pc'[c] = "recording"
          /\ UNCHANGED <<owner, base, record, action>>
          /\ file' = Edited(base[c], action[c])
          /\ c \in disturbed <=> c \in disturbed'
      BY <2>1, <2>3 DEF TypeOK, Mutate, Goto, At, Target, knowledge, Disturb
    <3>2. c \notin disturbed => Writes(action[c])'
      BY <2>3, <3>1 DEF Writes, Intact, TypeOK
    <3>3. Edited(base[c], action[c])' = Edited(base[c], action[c])
      BY <3>1 DEF Edited
    <3> QED
      BY <3>1, <3>2, <3>3 DEF Intact
  <2> QED
    BY <2>2, <2>3
<1>8. CASE RecordFails(c)
  <2>1. CASE action[c] = "adopt"
    BY <1>8, <2>1, SettledIntact DEF RecordFails
  <2>2. CASE action[c] # "adopt"
    <3>1. /\ pc[c] = "recording" /\ pc'[c] = "unrecording"
          /\ UNCHANGED <<file, base, action>>
          /\ c \in disturbed <=> c \in disturbed'
      BY <1>8, <2>2 DEF TypeOK, RecordFails, Goto, At, knowledge, Disturb
    <3>2. Edited(base[c], action[c])' = Edited(base[c], action[c])
      BY <3>1 DEF Edited
    <3> QED
      BY <2>2, <3>1, <3>2 DEF Intact, Writes
  <2> QED
    BY <2>1, <2>2
<1>9. CASE RestoreRecord(c)
  <2>1. /\ pc[c] = "unrecording" /\ pc'[c] = "preparing" /\ undo'[c]
        /\ UNCHANGED <<file, base, record, action>>
        /\ c \notin disturbed' => c \notin disturbed /\ owner' = record[c]
    BY <1>9 DEF TypeOK, RestoreRecord, At, Disturb
  <2>2. /\ Expected(c)' = Edited(base[c], action[c])
        /\ action[c] # "adopt" => Writes(action[c])'
    BY <2>1 DEF Expected, Edited, Writes
  <2> QED
    BY <2>1, <2>2 DEF Intact
<1> QED
  BY <1>1, <1>2, <1>3, <1>4, <1>5, <1>6, <1>7, <1>8, <1>9 DEF Moves

\* Every step keeps every command intact.
LEMMA IntactStep == ConfigInv /\ IntactInv /\ [Next]_vars => IntactInv'
<1> SUFFICES ASSUME ConfigInv, IntactInv, [Next]_vars, NEW d \in Commands
             PROVE  Intact(d)'
  BY DEF IntactInv
<1>0. client' = client /\ Intact(d) /\ TypeOK
  BY SameContents DEF IntactInv, ConfigInv
<1>1. ASSUME NEW c \in Commands, Moves(c)
      PROVE  Intact(d)'
  <2>1. CASE d = c
    BY <1>0, <1>1, <2>1, OwnIntact
  <2>2. CASE d # c
    <3>1. PassedBy(d)
      BY <1>0, <1>1, <2>2, OthersPassedBy DEF Moves
    <3> QED
      BY <1>0, <1>1, <2>2, <3>1, PassedByIntact, WritesDisturb
  <2> QED
    BY <2>1, <2>2
<1>2. CASE OthersWrite
  <2>1. PassedBy(d)
    BY <1>2 DEF OthersWrite, PassedBy, knowledge
  <2>2. Working(d) => d \in disturbed'
    BY <1>2 DEF OthersWrite
  <2> QED
    BY <1>0, <2>1, <2>2, PassedByIntact
<1>3. CASE HostEnds
  <2>1. pc'[d] = "idle"
    BY <1>3 DEF HostEnds
  <2> QED
    BY <2>1 DEF Intact
<1>4. CASE UNCHANGED vars
  <2>1. PassedBy(d)
    BY <1>4 DEF vars, PassedBy, knowledge
  <2>2. UNCHANGED <<file, owner, disturbed>>
    BY <1>4 DEF vars
  <2> QED
    BY <1>0, <2>1, <2>2, PassedByIntact
<1> QED
  BY <1>1, <1>2, <1>3, <1>4 DEF Next, Moves

\* Nobody is at work at the beginning.
LEMMA AlwaysIntact == Spec => []IntactInv
<1>1. Init => IntactInv
  BY DEF Init, IntactInv, Intact
<1> QED
  BY <1>1, IntactStep, AlwaysConfig, PTL DEF Spec

\* What was written is in the state that the action leads to, whether the
\* managed entry is told by its markers or by the record.
LEMMA GoalReached ==
    ASSUME TypeOK, NEW c \in Commands, NEW r, NEW k,
           k = Edited(base[c], action[c]),
           client = "codex" => r = None,
           client = "claude" => r = IF action[c] = "remove" THEN None ELSE Current,
           client = "claude" => action[c] # "adopt"
    PROVE  Classify(k, r) \in Goal(c)
<1>1. k # None
  BY EditedIsSome
<1>2. CASE action[c] = "remove"
  <2>1. k.entry = "none"
    BY <1>2 DEF Edited
  <2> QED
    BY <1>1, <1>2, <2>1 DEF Classify, Goal
<1>3. CASE action[c] # "remove"
  <2>1. k.entry = Current /\ (k.marked <=> client = "codex")
    BY <1>3 DEF Edited
  <2>2. Current # "none" /\ Current # "foreign"
    BY VersionAssumption, NameAssumption
  <2>3. Managed(k, r)
    BY <1>3, <2>1 DEF Managed, TypeOK
  <2>4. Classify(k, r) = "managed-current"
    BY <1>1, <2>1, <2>2, <2>3 DEF Classify
  <2> QED
    BY <1>3, <2>4 DEF Goal
<1> QED
  BY <1>2, <1>3

\* Adopting leaves the entry and records its version.
LEMMA AdoptionReached ==
    ASSUME TypeOK, NEW c \in Commands, Knows(c), pc[c] = "recording",
           action[c] = "adopt"
    PROVE  Classify(base[c], base[c].entry) \in Goal(c)
<1>1. client = "claude" /\ action[c] \in Offered(Classify(base[c], record[c]))
  BY DEF Knows, Applying
<1>2. base[c].entry \in Recognized
  BY <1>1, AdoptsRecognized DEF TypeOK
<1>3. base[c] # None
  <2>1. SUFFICES ASSUME base[c] = None
                 PROVE  FALSE
    OBVIOUS
  <2>2. Classify(base[c], record[c]) = "absent"
    BY <2>1 DEF Classify
  <2> QED
    BY <1>1, <2>2 DEF Offered
<1>4. base[c].entry \notin {"none", "foreign"}
  BY <1>2, NameAssumption
<1>5. Classify(base[c], base[c].entry) \in {"managed-current", "managed-outdated"}
  BY <1>1, <1>3, <1>4 DEF Classify, Managed
<1> QED
  BY <1>5 DEF Goal

\* apply of either editor, from its first check to its end, with what undoes it:
\* whoever was not disturbed has done what was asked, or nothing.
THEOREM Applied == Spec => AllOrNothing
<1> DEFINE Outcome(c) ==
             IF pc'[c] = "done" THEN Classify(file', owner') \in Goal(c)
             ELSE file' = base[c] /\ owner' = record[c]
<1>1. ASSUME ConfigInv, IntactInv, [Next]_vars, NEW c \in Commands,
             pc[c] \in Applying, ~Working(c)', c \notin disturbed'
      PROVE  Outcome(c)
  <2>1. TypeOK /\ Knows(c) /\ Intact(c) /\ client' = client
    BY <1>1, SameContents DEF ConfigInv, IntactInv
  <2>2. pc'[c] # pc[c] /\ pc'[c] \in {"idle", "done"}
    BY <1>1 DEF Working, Applying
  <2>3. Moves(c)
    <3>1. ~HostEnds /\ ~OthersWrite /\ ~UNCHANGED vars
      BY <1>1, <2>2 DEF HostEnds, OthersWrite, vars
    <3>2. PICK d \in Commands : Moves(d)
      BY <1>1, <3>1 DEF Next, Moves
    <3>3. d = c
      BY <2>1, <2>2, <3>2, OthersPassedBy DEF PassedBy, Moves
    <3> QED
      BY <3>2, <3>3
  <2>4. CASE Changed(c)
    <3>1. /\ c \notin disturbed
          /\ pc[c] \in {"preparing", "rechecking", "committing"}
      BY <1>1, <2>4 DEF Changed, At, Applying
    <3>2. file = Expected(c)
      BY <2>1, <3>1 DEF Intact
    <3>3. Edited(base[c], action[c]) # None
      BY <2>1, EditedIsSome
    <3> QED
      BY <2>4, <3>1, <3>2, <3>3 DEF Changed, At, Expected, Target
  <2>5. CASE Fails(c)
    <3>1. /\ ~undo[c] /\ c \notin disturbed /\ UNCHANGED <<file, owner>>
          /\ pc[c] \in {"preparing", "rechecking", "committing"}
          /\ pc'[c] = "idle"
      BY <1>1, <2>1, <2>5 DEF Fails, Applying, UnchangedWorld, Settle, TypeOK
    <3> QED
      BY <2>1, <3>1 DEF Intact, Expected
  <2>6. CASE Rename(c) \/ Link(c) \/ Unlink(c)
    <3>1. pc[c] = "committing" /\ Mutate(c)
      BY <2>6 DEF Rename, Link, Unlink, At
    <3>2. c \notin disturbed /\ owner' = owner /\ owner = record[c]
      BY <1>1, <2>1, <3>1 DEF Mutate, Disturb, Intact
    <3>3. CASE undo[c]
      <4>1. pc'[c] = "idle" /\ file' = base[c]
        BY <2>1, <3>1, <3>3 DEF Mutate, Settle, Target, TypeOK
      <4> QED
        BY <3>2, <4>1
    <3>4. CASE ~undo[c]
      <4>1. client = "codex" /\ file' = Edited(base[c], action[c])
        BY <2>1, <2>2, <3>1, <3>4 DEF Mutate, Goto, Target, TypeOK
      <4>2. owner' = None /\ pc'[c] = "done"
        BY <2>1, <3>1, <3>2, <3>4, <4>1 DEF Mutate, Settle, TypeOK
      <4>3. Classify(file', owner') \in Goal(c)
        BY <2>1, <4>1, <4>2, GoalReached
      <4> QED
        BY <4>2, <4>3
    <3> QED
      BY <3>3, <3>4
  <2>7. CASE Record(c)
    <3>1. /\ pc[c] = "recording" /\ pc'[c] = "done" /\ owner' = Vouched(c)
          /\ file' = file /\ c \notin disturbed /\ client = "claude"
      BY <1>1, <2>1, <2>7 DEF Record, At, Settle, TypeOK, Disturb, Knows
    <3>2. CASE action[c] = "adopt"
      <4>1. file = base[c] /\ owner' = base[c].entry
        BY <2>1, <3>1, <3>2 DEF Intact, Writes, Vouched
      <4> QED
        BY <2>1, <3>1, <3>2, <4>1, AdoptionReached
    <3>3. CASE action[c] # "adopt"
      <4>1. /\ file = Edited(base[c], action[c])
            /\ owner' = IF action[c] = "remove" THEN None ELSE Current
        BY <2>1, <3>1, <3>3 DEF Intact, Writes, Vouched
      <4>2. Classify(file', owner') \in Goal(c)
        BY <2>1, <3>1, <3>3, <4>1, GoalReached
      <4> QED
        BY <3>1, <4>2
    <3> QED
      BY <3>2, <3>3
  <2>8. CASE RecordFails(c)
    <3>1. action[c] = "adopt" /\ pc[c] = "recording" /\ client = "claude"
      BY <2>1, <2>2, <2>8 DEF RecordFails, Goto, TypeOK, At, Knows
    <3>2. /\ owner' = owner /\ c \notin disturbed /\ file' = file
          /\ pc'[c] = "idle"
      <4>1. Working(c)
        BY <3>1 DEF Working
      <4> QED
        BY <1>1, <2>1, <2>8, <3>1, <4>1 DEF RecordFails, Settle, TypeOK
    <3> QED
      BY <2>1, <3>1, <3>2 DEF Intact, Writes
  <2>9. ~(\/ Run(c) \/ Read(c) \/ Inspect(c) \/ Choose(c) \/ Cancel(c)
          \/ Reread(c) \/ Compare(c) \/ Check(c) \/ Recheck(c)
          \/ RestoreRecord(c))
    <3>1. ~(Run(c) \/ Read(c) \/ Inspect(c) \/ Choose(c) \/ Cancel(c) \/ Reread(c)
            \/ Compare(c))
      BY <1>1 DEF Run, Read, Inspect, Choose, Cancel, Reread, Compare, At,
                  Applying, Working
    <3>2. ~(Check(c) \/ Recheck(c) \/ RestoreRecord(c))
      BY <2>1, <2>2 DEF Check, Recheck, RestoreRecord, Goto, TypeOK
    <3> QED
      BY <3>1, <3>2
  <2> HIDE DEF Outcome
  <2> QED
    BY <2>3, <2>4, <2>5, <2>6, <2>7, <2>8, <2>9 DEF Moves
<1>2. ConfigInv /\ IntactInv /\ [Next]_vars
      => [\A c \in Commands :
            /\ pc[c] \in Applying
            /\ ~Working(c)' /\ c \notin disturbed'
            => IF pc'[c] = "done"
               THEN Classify(file', owner') \in Goal(c)
               ELSE file' = base[c] /\ owner' = record[c]]_vars
  BY <1>1
<1> QED
  BY AlwaysConfig, AlwaysIntact, <1>2, PTL DEF Spec, AllOrNothing
=============================================================================
