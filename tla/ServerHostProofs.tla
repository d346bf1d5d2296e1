--------------------------- MODULE ServerHostProofs ---------------------------
(***************************************************************************)
(* What a server keeps on its own disk and among its own processes: the    *)
(* sections of MissionRegistry keep RegistryPromise, for any number of     *)
(* processes on Windows and for one process elsewhere; a reconcile into a  *)
(* local directory leaves all of its changes or none; and the server knows *)
(* the previews that live, and never too many.                             *)
(***************************************************************************)
EXTENDS ServerHost, TLAPS, FunctionTheorems, FiniteSetTheorems, SequenceTheorems

------------------------------------------------------------------------------
(* The directory.                                                          *)

\* What a sequence holds is its head or in its tail.
LEMMA HeadOrTail ==
    ASSUME NEW S, NEW s \in Seq(S), s # <<>>, NEW q \in Range(s)
    PROVE  q = Head(s) \/ q \in Range(Tail(s))
<1>1. PICK i \in 1..Len(s) : q = s[i]
  BY DEF Range
<1>2. CASE i = 1
  BY <1>1, <1>2
<1>3. CASE i # 1
  <2>1. Tail(s) \in Seq(S) /\ Len(Tail(s)) = Len(s) - 1 /\ i - 1 \in 1..Len(Tail(s)) /\ Tail(s)[i-1] = s[i]
    BY <1>1, <1>3, HeadTailProperties
  <2>2. i - 1 \in DOMAIN Tail(s)
    BY <2>1
  <2>3. QED
    BY <1>1, <2>1, <2>2 DEF Range
<1>4. QED
  BY <1>2, <1>3

\* What either of two sequences holds is in both together.
LEMMA Within ==
    ASSUME NEW S, NEW a \in Seq(S), NEW b \in Seq(S)
    PROVE  a \o b \in Seq(S) /\ Range(a) \subseteq Range(a \o b) /\ Range(b) \subseteq Range(a \o b)
<1>1. a \o b \in Seq(S) /\ Len(a \o b) = Len(a) + Len(b)
  BY ConcatProperties
<1>2. Range(a) \subseteq Range(a \o b)
  BY <1>1 DEF Range
<1>3. ASSUME NEW i \in 1..Len(b)
      PROVE  b[i] \in Range(a \o b)
  <2>1. Len(a) + i \in 1..Len(a \o b) /\ (a \o b)[Len(a) + i] = b[i]
    BY <1>1
  <2>2. QED
    BY <1>1, <2>1 DEF Range
<1>4. Range(b) \subseteq Range(a \o b)
  <2>1. \A q \in Range(b) : \E i \in 1..Len(b) : q = b[i]
    BY DEF Range
  <2>2. QED
    BY <1>3, <2>1
<1>5. QED
  BY <1>1, <1>2, <1>4

\* A set in some order holds the set.
LEMMA OrderHoldsAll ==
    ASSUME NEW S, IsFiniteSet(S)
    PROVE  SetToSeq(S) \in Seq(S) /\ Range(SetToSeq(S)) = S
<1> DEFINE n == Cardinality(S)
           f == SetToSeq(S)
<1>1. n \in Nat /\ \E g \in [1..n -> S] : IsInjective(g)
  <2>1. n \in Nat /\ ExistsBijection(1..n, S)
    BY FS_CardinalityType
  <2>2. PICK g : g \in Bijection(1..n, S)
    BY <2>1 DEF ExistsBijection
  <2>3. g \in [1..n -> S] /\ IsInjective(g)
    BY <2>2 DEF Bijection, Injection
  <2>4. QED
    BY <2>1, <2>3
<1>2. f \in [1..n -> S] /\ IsInjective(f)
  BY <1>1 DEF SetToSeq
<1>3. f \in Injection(1..n, S)
  BY <1>2 DEF Injection
<1>4. Cardinality(1..n) = n
  BY <1>1, FS_Interval
<1>5. f \in Surjection(1..n, S)
  BY <1>3, <1>4, FS_Injection
<1>6. Range(f) = S
  BY <1>5, Fun_SurjectionProperties
<1>7. f \in Seq(S)
  BY <1>1, <1>2
<1>8. QED
  BY <1>6, <1>7

\* Nothing read is a tree without paths.
LEMMA NothingRead == <<>> \in [{} -> Texts \cup {Missing}] /\ DOMAIN <<>> = {}
BY SMT

SyncSteps == {"new", "capturing", "returned", "checking", "staged", "undo",
              "refused", "succeeded", "failed", "died"}

\* What has been read of a directory.
Seen == UNION {[part -> Texts \cup {Missing}] : part \in SUBSET Names}

Trees == Directories \cup {<<>>}

Sync == [step : SyncSteps, seen : Seen, base : Trees, before : Trees, returned : Trees,
         todo : Seq(Names), done : Seq(Names), disturbed : SUBSET Names]

ToolEdits == ({"write"} \X Names \X Texts) \cup ({"remove"} \X Names) \cup ({"move"} \X Names \X Names)

LocalTyped ==
    /\ LocalTypeOK
    /\ syncs \in [Syncs -> Sync]
    /\ edit \in ToolEdits \cup {<<>>}

\* The tree agrees with the directory but on what others wrote and on these paths.
Agrees(s, tree, but) == \A p \in Names \ syncs[s].disturbed : p \notin but => root[p] = tree[p]

\* A reconcile has the directory for itself, but for those who ask for no lock: what
\* it has read is there, what it still has to do is all there is to do, and what it
\* has done is all it did.
Alone(s) ==
    LET sync == syncs[s]
    IN /\ Reconciling(s) => rootLock = s
       /\ sync.step = "returned" => sync.seen = <<>>
       /\ sync.step \in {"returned", "checking", "staged", "undo"} => sync.returned \in Directories
       /\ sync.step = "checking" => Agrees(s, sync.seen, Names \ DOMAIN sync.seen)
       /\ sync.step \in {"staged", "undo"} =>
             sync.before \in Directories /\ Agrees(s, sync.before, Range(sync.done))
       /\ sync.step = "staged" =>
             sync.before = sync.base /\ Agrees(s, sync.returned, Range(sync.todo))

\* The inductive invariant of the directory.
LocalIInv == LocalTyped /\ \A s \in Syncs : Alone(s)

\* A sync that is begun, ended or lost.
LEMMA NewIsSync == ASSUME NEW step \in SyncSteps PROVE [NewSync EXCEPT !.step = step] \in Sync
<1>1. <<>> \in Seen
  BY NothingRead DEF Seen
<1>2. <<>> \in Trees /\ <<>> \in Seq(Names) /\ {} \in SUBSET Names
  BY DEF Trees
<1>3. NewSync \in Sync
  BY <1>1, <1>2 DEF NewSync, Sync, SyncSteps
<1>4. QED
  BY <1>3 DEF Sync

\* What is among no operation is the same before and after.
LEMMA OperationsAreAll ==
    ASSUME NEW before \in Directories, NEW after \in Directories
    PROVE  /\ Operations(before, after) \in Seq(Names)
           /\ \A p \in Names : p \notin Range(Operations(before, after)) => before[p] = after[p]
<1> DEFINE updated == {p \in Names : {before[p], after[p]} \subseteq Texts /\ before[p] # after[p]}
           created == {p \in Names : before[p] = Missing /\ after[p] # Missing}
           deleted == {p \in Names : before[p] # Missing /\ after[p] = Missing}
<1>1. IsFiniteSet(updated) /\ IsFiniteSet(created) /\ IsFiniteSet(deleted)
  BY FS_Subset, LocalAssumption
<1>2. /\ SetToSeq(updated) \in Seq(updated) /\ Range(SetToSeq(updated)) = updated
      /\ SetToSeq(created) \in Seq(created) /\ Range(SetToSeq(created)) = created
      /\ SetToSeq(deleted) \in Seq(deleted) /\ Range(SetToSeq(deleted)) = deleted
  BY <1>1, OrderHoldsAll
<1>3. SetToSeq(updated) \in Seq(Names) /\ SetToSeq(created) \in Seq(Names) /\ SetToSeq(deleted) \in Seq(Names)
  BY <1>2
<1> DEFINE some == SetToSeq(updated) \o SetToSeq(created)
<1>4. some \in Seq(Names) /\ updated \subseteq Range(some) /\ created \subseteq Range(some)
  BY <1>2, <1>3, Within
<1>5. /\ some \o SetToSeq(deleted) \in Seq(Names)
      /\ Range(some) \subseteq Range(some \o SetToSeq(deleted))
      /\ deleted \subseteq Range(some \o SetToSeq(deleted))
  BY <1>2, <1>3, <1>4, Within
<1>6. Operations(before, after) = some \o SetToSeq(deleted)
  BY DEF Operations
<1>7. ASSUME NEW p \in Names, before[p] # after[p]
      PROVE  p \in updated \cup created \cup deleted
  BY <1>7 DEF Directories
<1>8. QED
  BY <1>4, <1>5, <1>6, <1>7

LEMMA LocalInitKeepsInv == LocalInit => LocalIInv
<1> SUFFICES ASSUME LocalInit
             PROVE  LocalIInv
  OBVIOUS
<1>1. NewSync \in Sync /\ NewSync.step = "new"
  <2>1. NewSync = [NewSync EXCEPT !.step = "new"] /\ NewSync.step = "new"
    BY DEF NewSync
  <2>2. QED
    BY <2>1, NewIsSync DEF SyncSteps
<1>2. LocalTyped
  BY <1>1, LocalAssumption DEF LocalInit, LocalTyped, LocalTypeOK
<1>3. \A s \in Syncs : Alone(s)
  BY <1>1 DEF LocalInit, Alone, Reconciling
<1>4. QED
  BY <1>2, <1>3 DEF LocalIInv

\* Somebody else writes: the reconcile at work counts the paths as disturbed.
LEMMA WritesKeepAlone ==
    ASSUME LocalIInv, NEW changed \in SUBSET Names, NEW new \in Directories, WritesTo(changed, new),
           rootLock' = rootLock, \A p \in Names \ changed : new[p] = root[p]
    PROVE  root' \in Directories /\ syncs' \in [Syncs -> Sync] /\ \A s \in Syncs : Alone(s)'
<1>1. root' = new /\ root' \in Directories /\ syncs \in [Syncs -> Sync] /\ \A s \in Syncs : Alone(s)
  BY DEF WritesTo, LocalIInv, LocalTyped
<1>2. ASSUME NEW s \in Syncs
      PROVE  syncs'[s] \in Sync /\ Alone(s)'
  <2>1. CASE ~Reconciling(s)
    <3>1. syncs'[s] = syncs[s]
      BY <2>1 DEF WritesTo
    <3>2. QED
      BY <1>1, <2>1, <3>1 DEF Alone, Reconciling
  <2>2. CASE Reconciling(s)
    <3>1. syncs'[s] = [syncs[s] EXCEPT !.disturbed = @ \cup changed]
      BY <2>2 DEF WritesTo
    <3>2. /\ syncs'[s] \in Sync
          /\ syncs'[s].disturbed = syncs[s].disturbed \cup changed
          /\ syncs'[s].step = syncs[s].step /\ syncs'[s].seen = syncs[s].seen
          /\ syncs'[s].base = syncs[s].base /\ syncs'[s].before = syncs[s].before
          /\ syncs'[s].returned = syncs[s].returned
          /\ syncs'[s].todo = syncs[s].todo /\ syncs'[s].done = syncs[s].done
      BY <1>1, <3>1 DEF Sync
    <3>3. \A tree, but : Agrees(s, tree, but) => Agrees(s, tree, but)'
      BY <1>1, <3>2 DEF Agrees
    <3>4. Alone(s)'
      BY <1>1, <2>2, <3>2, <3>3 DEF Alone, Reconciling, Agrees
    <3>5. QED
      BY <3>2, <3>4
  <2>3. QED
    BY <2>1, <2>2
<1>3. DOMAIN syncs' = Syncs /\ syncs' = [s \in Syncs |-> syncs'[s]]
  BY DEF WritesTo
<1>4. QED
  BY <1>1, <1>2, <1>3

\* Who does not hold the directory is left alone by who does, or begins or ends to.
LEMMA OthersKeepAlone ==
    ASSUME LocalIInv, NEW s \in Syncs, NEW t \in Syncs \ {s}, syncs'[t] = syncs[t],
           root' = root \/ rootLock = s, rootLock' = rootLock \/ rootLock \in {s, Unheld}
    PROVE  Alone(t)'
<1>1. Alone(t)
  BY DEF LocalIInv
<1>2. CASE Reconciling(t)
  <2>1. root' = root /\ rootLock' = rootLock
    BY <1>1, <1>2, LocalAssumption DEF Alone
  <2>2. QED
    BY <1>1, <1>2, <2>1 DEF Alone, Reconciling, Agrees
<1>3. CASE ~Reconciling(t)
  BY <1>1, <1>3 DEF Alone, Reconciling
<1>4. QED
  BY <1>2, <1>3

\* The directory is released, whatever came of it.
LEMMA ReleaseKeepsAlone ==
    ASSUME LocalIInv, NEW s \in Syncs, NEW outcome \in {"refused", "succeeded", "failed"},
           ReleasesRoot(s, outcome), rootLock = s, root' = root
    PROVE  rootLock' = Unheld /\ syncs' \in [Syncs -> Sync] /\ \A t \in Syncs : Alone(t)'
<1>1. [NewSync EXCEPT !.step = outcome] \in Sync /\ [NewSync EXCEPT !.step = outcome].step = outcome
  BY NewIsSync DEF SyncSteps, NewSync
<1>2. rootLock' = Unheld /\ syncs' \in [Syncs -> Sync]
      /\ syncs'[s].step = outcome /\ \A t \in Syncs \ {s} : syncs'[t] = syncs[t]
  BY <1>1 DEF ReleasesRoot, LocalIInv, LocalTyped
<1>3. Alone(s)'
  BY <1>2 DEF Alone, Reconciling
<1>4. QED
  BY <1>2, <1>3, OthersKeepAlone

\* A step of a capture or of a reconcile.
LEMMA SyncsKeepInv ==
    ASSUME LocalIInv, NEW s \in Syncs,
           \/ CaptureStarts(s) \/ SandboxReturns(s) \/ Checks(s) \/ Applies(s)
           \/ ApplyFails(s) \/ Undoes(s) \/ ReconcileEnds(s)
           \/ \E p \in Names : ReadsFile(s, p)
    PROVE  LocalIInv'
<1> DEFINE sync == syncs[s]
<1>1. /\ LocalTypeOK /\ syncs \in [Syncs -> Sync] /\ sync \in Sync
      /\ edit \in ToolEdits \cup {<<>>} /\ (\A t \in Syncs : Alone(t))
      /\ runner' = runner /\ edit' = edit /\ edits' = edits /\ commands' = commands /\ os' = os
  BY DEF LocalIInv, LocalTyped, CaptureStarts, SandboxReturns, Checks, ReleasesRoot, Applies,
         ApplyFails, Undoes, ReconcileEnds, ReadsFile
<1>2. SUFFICES /\ root' \in Directories /\ rootLock' \in Syncs \cup {Unheld}
               /\ syncs' \in [Syncs -> Sync] /\ \A t \in Syncs : Alone(t)'
  BY <1>1 DEF LocalIInv, LocalTyped, LocalTypeOK
<1>3. root \in Directories /\ rootLock \in Syncs \cup {Unheld} /\ Alone(s)
  BY <1>1 DEF LocalTypeOK
\* What remains to be shown of a step that keeps the sync typed.
<1>4. ASSUME NEW new \in Sync, syncs' = [syncs EXCEPT ![s] = new], Alone(s)',
             root' \in Directories, rootLock' \in Syncs \cup {Unheld},
             root' = root \/ rootLock = s, rootLock' = rootLock \/ rootLock \in {s, Unheld}
      PROVE  /\ root' \in Directories /\ rootLock' \in Syncs \cup {Unheld}
             /\ syncs' \in [Syncs -> Sync] /\ \A t \in Syncs : Alone(t)'
  <2>1. syncs' \in [Syncs -> Sync] /\ \A t \in Syncs \ {s} : syncs'[t] = syncs[t]
    BY <1>1, <1>4
  <2>2. \A t \in Syncs \ {s} : Alone(t)'
    BY <1>4, <2>1, OthersKeepAlone
  <2>3. QED
    BY <1>4, <2>1, <2>2
<1>5. CASE CaptureStarts(s)
  <2>1. PICK step \in {"capturing", "checking"} :
           /\ syncs' = [syncs EXCEPT ![s] = [sync EXCEPT !.step = step]]
           /\ step = "capturing" => rootLock' = rootLock
           /\ step = "checking" => sync.step = "returned" /\ rootLock = Unheld /\ rootLock' = s
    BY <1>1, <1>5 DEF CaptureStarts
  <2>2. root' = root
    BY <1>5 DEF CaptureStarts
  <2>3. /\ [sync EXCEPT !.step = step] \in Sync /\ syncs'[s].step = step
        /\ syncs'[s].seen = sync.seen /\ syncs'[s].returned = sync.returned
    BY <1>1, <2>1 DEF Sync, SyncSteps
  <2>4. Alone(s)'
    BY <1>3, <2>1, <2>3, NothingRead DEF Alone, Reconciling, Agrees
  <2>5. QED
    BY <1>3, <1>4, <2>1, <2>2, <2>3, <2>4
<1>6. CASE SandboxReturns(s)
  <2>1. PICK tree \in Directories :
           syncs' = [syncs EXCEPT ![s] = [NewSync EXCEPT !.step = "returned", !.base = sync.seen,
                                                         !.returned = tree]]
    BY <1>6 DEF SandboxReturns
  <2>2. root' = root /\ rootLock' = rootLock /\ DOMAIN sync.seen = Names
    BY <1>6 DEF SandboxReturns
  <2>3. sync.seen \in Directories
    BY <1>1, <2>2 DEF Sync, Seen, Directories
  <2>4. [NewSync EXCEPT !.step = "returned"] \in Sync
    BY NewIsSync DEF SyncSteps
  <2> DEFINE new == [NewSync EXCEPT !.step = "returned", !.base = sync.seen, !.returned = tree]
  <2>5. new \in Sync /\ new.step = "returned" /\ new.seen = <<>> /\ new.returned = tree
    BY <2>3, <2>4 DEF Sync, NewSync, Trees
  <2>6. Alone(s)'
    BY <1>1, <2>1, <2>5 DEF Alone, Reconciling
  <2>7. QED
    BY <1>3, <1>4, <2>1, <2>2, <2>5, <2>6
<1>7. CASE \E p \in Names : ReadsFile(s, p)
  <2>1. PICK p \in Names : ReadsFile(s, p)
    BY <1>7
  <2> DEFINE seen == [q \in DOMAIN sync.seen \cup {p} |-> IF q = p THEN root[p] ELSE sync.seen[q]]
  <2>2. /\ syncs' = [syncs EXCEPT ![s] = [sync EXCEPT !.seen = seen]]
        /\ root' = root /\ rootLock' = rootLock /\ sync.step \in {"capturing", "checking"}
    BY <1>1, <2>1 DEF ReadsFile, Reading
  <2>3. PICK part \in SUBSET Names : sync.seen \in [part -> Texts \cup {Missing}]
    BY <1>1 DEF Sync, Seen
  <2>4. seen \in [part \cup {p} -> Texts \cup {Missing}]
    BY <1>3, <2>3 DEF Directories
  <2>5. seen \in Seen
    BY <2>4 DEF Seen
  <2>6. /\ [sync EXCEPT !.seen = seen] \in Sync /\ syncs'[s].seen = seen
        /\ syncs'[s].step = sync.step /\ syncs'[s].returned = sync.returned
        /\ syncs'[s].disturbed = sync.disturbed
    BY <1>1, <2>2, <2>5 DEF Sync
  <2>7. DOMAIN seen = part \cup {p} /\ seen[p] = root[p] /\ \A q \in part \ {p} : seen[q] = sync.seen[q]
    BY <2>3
  <2>8. sync.step = "checking" => Agrees(s, sync.seen, Names \ DOMAIN sync.seen)
    BY <1>3 DEF Alone
  <2>9. sync.step = "checking" => Agrees(s, syncs[s].seen, Names \ DOMAIN syncs[s].seen)'
    BY <2>2, <2>3, <2>6, <2>7, <2>8 DEF Agrees
  <2>10. Alone(s)'
    BY <1>3, <2>2, <2>6, <2>9 DEF Alone, Reconciling
  <2>11. QED
    BY <1>3, <1>4, <2>2, <2>6, <2>10
<1>8. CASE Checks(s)
  <2>1. rootLock = s /\ root' = root /\ sync.step = "checking" /\ DOMAIN sync.seen = Names
    BY <1>3, <1>8 DEF Checks, Alone, Reconciling
  <2>2. CASE ReleasesRoot(s, "refused")
    BY <1>3, <2>1, <2>2, ReleaseKeepsAlone
  <2>3. CASE ~ReleasesRoot(s, "refused")
    <3> DEFINE ops == Operations(sync.seen, sync.returned)
               new == [sync EXCEPT !.step = "staged", !.before = sync.seen, !.seen = <<>>, !.todo = ops]
    <3>1. syncs' = [syncs EXCEPT ![s] = new] /\ rootLock' = rootLock /\ sync.seen = sync.base
      BY <1>1, <1>8, <2>3 DEF Checks
    <3>2. sync.seen \in Directories /\ sync.returned \in Directories
      BY <1>1, <1>3, <2>1 DEF Sync, Seen, Directories, Alone
    <3>3. ops \in Seq(Names) /\ \A p \in Names : p \notin Range(ops) => sync.seen[p] = sync.returned[p]
      BY <3>2, OperationsAreAll
    <3>4. <<>> \in Seen
      BY NothingRead DEF Seen
    <3>5. /\ new \in Sync /\ new.step = "staged" /\ new.before = sync.seen /\ new.base = sync.base
          /\ new.todo = ops /\ new.returned = sync.returned /\ new.disturbed = sync.disturbed
      BY <1>1, <3>2, <3>3, <3>4 DEF Sync, SyncSteps, Trees
    <3>6. \A p \in Names \ sync.disturbed : root[p] = sync.seen[p]
      BY <1>3, <2>1 DEF Alone, Agrees
    <3>7. syncs'[s] = new
      BY <1>1, <3>1
    <3>8. Agrees(s, syncs[s].before, Range(syncs[s].done))' /\ Agrees(s, syncs[s].returned, Range(syncs[s].todo))'
      BY <2>1, <3>3, <3>5, <3>6, <3>7 DEF Agrees
    <3>9. Alone(s)'
      BY <2>1, <3>1, <3>2, <3>5, <3>7, <3>8 DEF Alone, Reconciling
    <3>10. QED
      BY <1>3, <1>4, <2>1, <3>1, <3>5, <3>9
  <2>4. QED
    BY <2>2, <2>3
<1>9. CASE Applies(s)
  <2> DEFINE p == Head(sync.todo)
             new == [sync EXCEPT !.todo = Tail(sync.todo), !.done = <<p>> \o sync.done]
  <2>1. /\ sync.step = "staged" /\ sync.todo # <<>> /\ root' = [root EXCEPT ![p] = sync.returned[p]]
        /\ syncs' = [syncs EXCEPT ![s] = new] /\ rootLock' = rootLock /\ rootLock = s
    BY <1>1, <1>3, <1>9 DEF Applies, Alone, Reconciling
  <2>2. /\ sync.todo \in Seq(Names) /\ sync.done \in Seq(Names) /\ p \in Names
        /\ Tail(sync.todo) \in Seq(Names)
    BY <1>1, <2>1, HeadTailProperties DEF Sync
  <2>3. <<p>> \in Seq(Names) /\ p \in Range(<<p>>)
    BY <2>2 DEF Range
  <2>4. /\ <<p>> \o sync.done \in Seq(Names)
        /\ p \in Range(<<p>> \o sync.done) /\ Range(sync.done) \subseteq Range(<<p>> \o sync.done)
    BY <2>2, <2>3, Within
  <2>5. \A q \in Range(sync.todo) : q = p \/ q \in Range(Tail(sync.todo))
    BY <2>1, <2>2, HeadOrTail
  <2>6. /\ new \in Sync /\ new.step = "staged" /\ new.before = sync.before /\ new.base = sync.base
        /\ new.returned = sync.returned /\ new.disturbed = sync.disturbed
        /\ new.todo = Tail(sync.todo) /\ new.done = <<p>> \o sync.done
    BY <1>1, <2>1, <2>2, <2>4 DEF Sync
  <2>7. syncs'[s] = new
    BY <1>1, <2>1
  <2>8. /\ sync.returned \in Directories /\ sync.before \in Directories /\ sync.before = sync.base
        /\ Agrees(s, sync.before, Range(sync.done)) /\ Agrees(s, sync.returned, Range(sync.todo))
    BY <1>3, <2>1 DEF Alone
  <2>9. root' \in Directories /\ root'[p] = sync.returned[p] /\ \A q \in Names \ {p} : root'[q] = root[q]
    BY <1>3, <2>1, <2>2, <2>8 DEF Directories
  <2>10. Agrees(s, syncs[s].before, Range(syncs[s].done))'
    BY <2>4, <2>6, <2>7, <2>8, <2>9 DEF Agrees
  <2>11. Agrees(s, syncs[s].returned, Range(syncs[s].todo))'
    BY <2>5, <2>6, <2>7, <2>8, <2>9 DEF Agrees
  <2>12. Alone(s)'
    BY <2>1, <2>6, <2>7, <2>8, <2>10, <2>11 DEF Alone, Reconciling
  <2>13. QED
    BY <1>3, <1>4, <2>1, <2>6, <2>9, <2>12
<1>10. CASE ApplyFails(s)
  <2> DEFINE new == [sync EXCEPT !.step = "undo"]
  <2>1. /\ sync.step = "staged" /\ root' = root /\ rootLock' = rootLock
        /\ syncs' = [syncs EXCEPT ![s] = new]
    BY <1>1, <1>10 DEF ApplyFails
  <2>2. /\ new \in Sync /\ new.step = "undo" /\ new.before = sync.before /\ new.returned = sync.returned
        /\ new.disturbed = sync.disturbed /\ new.done = sync.done /\ syncs'[s] = new
    BY <1>1, <2>1 DEF Sync, SyncSteps
  <2>3. Alone(s)'
    BY <1>3, <2>1, <2>2 DEF Alone, Reconciling, Agrees
  <2>4. QED
    BY <1>3, <1>4, <2>1, <2>2, <2>3
<1>11. CASE Undoes(s)
  <2> DEFINE p == Head(sync.done)
  <2>1. sync.step = "undo" /\ sync.done # <<>> /\ rootLock' = rootLock /\ rootLock = s
    BY <1>3, <1>11 DEF Undoes, Alone, Reconciling
  <2>2. sync.done \in Seq(Names) /\ p \in Names /\ Tail(sync.done) \in Seq(Names)
    BY <1>1, <2>1, HeadTailProperties DEF Sync
  <2>3. \A q \in Range(sync.done) : q = p \/ q \in Range(Tail(sync.done))
    BY <2>1, <2>2, HeadOrTail
  <2>4. /\ sync.returned \in Directories /\ sync.before \in Directories
        /\ Agrees(s, sync.before, Range(sync.done))
    BY <1>3, <2>1 DEF Alone
  <2>5. PICK disturbed \in SUBSET Names :
           /\ syncs' = [syncs EXCEPT ![s] = [sync EXCEPT !.done = Tail(sync.done), !.disturbed = disturbed]]
           /\ sync.disturbed \subseteq disturbed
           /\ root' \in Directories /\ \A q \in Names \ {p} : root'[q] = root[q]
           /\ p \in disturbed \/ root'[p] = sync.before[p]
    <3>1. CASE root' = [root EXCEPT ![p] = sync.before[p]] /\ syncs' = [syncs EXCEPT ![s].done = Tail(@)]
      <4>1. root' \in Directories /\ root'[p] = sync.before[p] /\ \A q \in Names \ {p} : root'[q] = root[q]
        BY <1>3, <2>2, <2>4, <3>1 DEF Directories
      <4>2. syncs' = [syncs EXCEPT ![s] = [sync EXCEPT !.done = Tail(sync.done)]]
        BY <1>1, <3>1
      <4>3. [sync EXCEPT !.done = Tail(sync.done)]
               = [sync EXCEPT !.done = Tail(sync.done), !.disturbed = sync.disturbed]
        BY <1>1 DEF Sync
      <4>4. sync.disturbed \in SUBSET Names
        BY <1>1 DEF Sync
      <4>5. QED
        BY <4>1, <4>2, <4>3, <4>4
    <3>2. CASE /\ syncs' = [syncs EXCEPT ![s].done = Tail(@), ![s].disturbed = @ \cup {p}]
               /\ root' = root
      <4>1. syncs' = [syncs EXCEPT ![s] = [sync EXCEPT !.done = Tail(sync.done),
                                                       !.disturbed = sync.disturbed \cup {p}]]
        BY <1>1, <3>2
      <4>2. sync.disturbed \cup {p} \in SUBSET Names
        BY <1>1, <2>2 DEF Sync
      <4>3. QED
        BY <1>3, <3>2, <4>1, <4>2
    <3>3. QED
      BY <1>11, <3>1, <3>2 DEF Undoes
  <2> DEFINE new == [sync EXCEPT !.done = Tail(sync.done), !.disturbed = disturbed]
  <2>6. /\ new \in Sync /\ new.step = "undo" /\ new.before = sync.before /\ new.returned = sync.returned
        /\ new.disturbed = disturbed /\ new.done = Tail(sync.done) /\ syncs'[s] = new
    BY <1>1, <2>1, <2>2, <2>5 DEF Sync
  <2>7. Agrees(s, syncs[s].before, Range(syncs[s].done))'
    BY <2>3, <2>4, <2>5, <2>6 DEF Agrees
  <2>8. Alone(s)'
    BY <2>1, <2>4, <2>6, <2>7 DEF Alone, Reconciling
  <2>9. QED
    BY <1>3, <1>4, <2>1, <2>5, <2>6, <2>8
<1>12. CASE ReconcileEnds(s)
  <2>1. rootLock = s /\ root' = root
    BY <1>3, <1>12 DEF ReconcileEnds, Alone, Reconciling
  <2>2. PICK outcome \in {"succeeded", "failed"} : ReleasesRoot(s, outcome)
    BY <1>12 DEF ReconcileEnds
  <2>3. QED
    BY <1>3, <2>1, <2>2, ReleaseKeepsAlone
<1>13. QED
  BY <1>5, <1>6, <1>7, <1>8, <1>9, <1>10, <1>11, <1>12

\* A file tool: what it is about to do, and that it does it.
LEMMA EditsKeepInv ==
    ASSUME LocalIInv,
           \/ EditApplies
           \/ \E p \in Names : \/ create_file(p) \/ apply_patch(p) \/ delete_file(p)
                               \/ \E q \in Names \ {p} : rename(p, q)
    PROVE  LocalIInv'
<1>1. /\ LocalTypeOK /\ syncs \in [Syncs -> Sync] /\ root \in Directories
      /\ edit \in ToolEdits \cup {<<>>} /\ (\A t \in Syncs : Alone(t))
      /\ runner' = runner /\ rootLock' = rootLock /\ commands' = commands /\ os' = os
  BY DEF LocalIInv, LocalTyped, LocalTypeOK, EditApplies, create_file, apply_patch, delete_file,
         rename, Edits
<1>2. SUFFICES /\ root' \in Directories /\ edit' \in ToolEdits \cup {<<>>} /\ edits' \in 0..MaxEdits
               /\ syncs' \in [Syncs -> Sync] /\ \A t \in Syncs : Alone(t)'
  BY <1>1 DEF LocalIInv, LocalTyped, LocalTypeOK
<1>3. CASE EditApplies
  <2>1. edit' = <<>> /\ edits' = edits /\ edits \in 0..MaxEdits
    BY <1>1, <1>3 DEF EditApplies, LocalTypeOK
  <2>2. CASE UNCHANGED <<root, syncs>>
    BY <1>1, <2>1, <2>2 DEF Alone, Agrees, Reconciling
  <2>3. CASE ~UNCHANGED <<root, syncs>>
    <3>1. PICK changed \in SUBSET Names, new \in Directories :
             WritesTo(changed, new) /\ \A p \in Names \ changed : new[p] = root[p]
      <4>1. edit \in ToolEdits
        BY <1>1, <1>3 DEF EditApplies
      <4>2. CASE edit[1] = "write"
        <5>1. edit[2] \in Names /\ edit[3] \in Texts
          BY <4>1, <4>2 DEF ToolEdits
        <5> DEFINE new == [root EXCEPT ![edit[2]] = edit[3]]
        <5>2. WritesTo({edit[2]}, new)
          BY <1>3, <4>2 DEF EditApplies
        <5>3. new \in Directories /\ \A p \in Names \ {edit[2]} : new[p] = root[p]
          BY <1>1, <5>1 DEF Directories
        <5>4. QED
          BY <5>1, <5>2, <5>3
      <4>3. CASE edit[1] = "remove" /\ root[edit[2]] # Missing
        <5>1. edit[2] \in Names
          BY <4>1, <4>3 DEF ToolEdits
        <5> DEFINE new == [root EXCEPT ![edit[2]] = Missing]
        <5>2. WritesTo({edit[2]}, new)
          BY <1>3, <4>3 DEF EditApplies
        <5>3. new \in Directories /\ \A p \in Names \ {edit[2]} : new[p] = root[p]
          BY <1>1, <5>1 DEF Directories
        <5>4. QED
          BY <5>1, <5>2, <5>3
      <4>4. CASE edit[1] = "move" /\ root[edit[2]] # Missing
        <5>1. edit[2] \in Names /\ edit[3] \in Names
          BY <4>1, <4>4 DEF ToolEdits
        <5> DEFINE new == [root EXCEPT ![edit[2]] = Missing, ![edit[3]] = root[edit[2]]]
        <5>2. WritesTo({edit[2], edit[3]}, new)
          BY <1>3, <4>4 DEF EditApplies
        <5>3. new \in Directories /\ \A p \in Names \ {edit[2], edit[3]} : new[p] = root[p]
          BY <1>1, <5>1 DEF Directories
        <5>4. QED
          BY <5>1, <5>2, <5>3
      <4>5. QED
        BY <1>3, <2>3, <4>1, <4>2, <4>3, <4>4 DEF EditApplies
    <3>2. QED
      BY <1>1, <2>1, <3>1, WritesKeepAlone
  <2>4. QED
    BY <2>2, <2>3
<1>4. CASE ~EditApplies
  <2>1. PICK new \in ToolEdits : Edits(new)
    BY <1>4 DEF create_file, apply_patch, delete_file, rename, ToolEdits
  <2>2. edit' = new /\ edits' = edits + 1 /\ edits < MaxEdits /\ root' = root /\ syncs' = syncs
    BY <2>1 DEF Edits
  <2>3. edits' \in 0..MaxEdits
    BY <1>1, <2>2, LocalAssumption DEF LocalTypeOK
  <2>4. QED
    BY <1>1, <2>1, <2>2, <2>3 DEF Alone, Agrees, Reconciling
<1>5. QED
  BY <1>3, <1>4

\* A command that the server runs itself.
LEMMA CommandsKeepInv ==
    ASSUME LocalIInv, NEW c \in Commands,
           \/ CommandStarts(c) \/ CommandWrites(c) \/ ProcessEnds(c)
           \/ TimesOut(c) \/ Reports(c) \/ RunCancelled(c)
    PROVE  LocalIInv'
<1>1. /\ LocalTypeOK /\ syncs \in [Syncs -> Sync] /\ root \in Directories
      /\ edit \in ToolEdits \cup {<<>>} /\ (\A t \in Syncs : Alone(t))
      /\ runner' = runner /\ rootLock' = rootLock /\ edit' = edit /\ edits' = edits
  BY DEF LocalIInv, LocalTyped, LocalTypeOK, CommandStarts, CommandWrites, ProcessEnds, TimesOut,
         Reports, RunCancelled
<1>2. root' \in Directories /\ syncs' \in [Syncs -> Sync] /\ \A t \in Syncs : Alone(t)'
  <2>1. CASE CommandWrites(c)
    <3>1. PICK p \in Names, content \in Texts \cup {Missing} :
             WritesTo({p}, [root EXCEPT ![p] = content])
      BY <2>1 DEF CommandWrites
    <3>2. /\ [root EXCEPT ![p] = content] \in Directories
          /\ \A q \in Names \ {p} : [root EXCEPT ![p] = content][q] = root[q]
      BY <1>1 DEF Directories
    <3>3. QED
      BY <1>1, <3>1, <3>2, WritesKeepAlone
  <2>2. CASE ~CommandWrites(c)
    <3>1. root' = root /\ syncs' = syncs
      BY <2>2 DEF CommandStarts, ProcessEnds, TimesOut, Reports, RunCancelled
    <3>2. QED
      BY <1>1, <3>1 DEF Alone, Agrees, Reconciling
  <2>3. QED
    BY <2>1, <2>2
<1>3. /\ commands' \in [Commands -> {"new", "runs", "failed", "reported", "cancelled"}]
      /\ os' \in [Commands -> {"none", "alive", "child", "gone"}]
  BY <1>1 DEF LocalTypeOK, CommandStarts, CommandWrites, ProcessEnds, TimesOut, Reports, RunCancelled
<1>4. QED
  BY <1>1, <1>2, <1>3 DEF LocalIInv, LocalTyped, LocalTypeOK

\* The server dies, and whatever its threads did stops where it is.
LEMMA LocalCrashKeepsInv == LocalIInv /\ LocalCrash => LocalIInv'
<1> SUFFICES ASSUME LocalIInv, LocalCrash
             PROVE  LocalIInv'
  OBVIOUS
<1>1. [NewSync EXCEPT !.step = "new"] \in Sync /\ [NewSync EXCEPT !.step = "died"] \in Sync
  BY NewIsSync DEF SyncSteps
<1>2. NewSync = [NewSync EXCEPT !.step = "new"] /\ [NewSync EXCEPT !.step = "died"].step = "died"
  BY DEF NewSync
<1>3. \A s \in Syncs : syncs'[s] \in Sync /\ syncs'[s].step \in {"new", "died"}
  BY <1>1, <1>2 DEF LocalCrash
<1>4. syncs' \in [Syncs -> Sync]
  <2>1. syncs' = [s \in Syncs |-> syncs'[s]]
    BY DEF LocalCrash
  <2>2. QED
    BY <1>3, <2>1
<1>5. \A s \in Syncs : Alone(s)'
  BY <1>3 DEF Alone, Reconciling
<1>6. QED
  BY <1>4, <1>5 DEF LocalCrash, LocalIInv, LocalTyped, LocalTypeOK

LEMMA LocalStepKeepsInv == LocalIInv /\ [LocalNext]_localVars => LocalIInv'
<1> SUFFICES ASSUME LocalIInv, [LocalNext]_localVars
             PROVE  LocalIInv'
  OBVIOUS
<1>1. CASE UNCHANGED localVars
  BY <1>1 DEF localVars, LocalIInv, LocalTyped, LocalTypeOK, Alone, Agrees, Reconciling
<1>2. CASE LocalCrash
  BY <1>2, LocalCrashKeepsInv
<1>3. CASE \E s \in Syncs : \/ CaptureStarts(s) \/ SandboxReturns(s) \/ Checks(s) \/ Applies(s)
                            \/ ApplyFails(s) \/ Undoes(s) \/ ReconcileEnds(s)
                            \/ \E p \in Names : ReadsFile(s, p)
  BY <1>3, SyncsKeepInv
<1>4. CASE \/ EditApplies
           \/ \E p \in Names : \/ create_file(p) \/ apply_patch(p) \/ delete_file(p)
                               \/ \E q \in Names \ {p} : rename(p, q)
  BY <1>4, EditsKeepInv
<1>5. CASE \E c \in Commands : \/ CommandStarts(c) \/ CommandWrites(c) \/ ProcessEnds(c)
                               \/ TimesOut(c) \/ Reports(c) \/ RunCancelled(c)
  BY <1>5, CommandsKeepInv
<1>6. QED
  BY <1>1, <1>2, <1>3, <1>4, <1>5 DEF LocalNext

\* For any finite set of paths and any number of reconciles, edits and commands: a
\* reconcile that is about to release the directory has made all its changes or left
\* none.
THEOREM LocalChangesAlwaysWhole == LocalSpec => []LocalChangesWhole
<1>1. LocalIInv => LocalChangesWhole
  <2> SUFFICES ASSUME LocalIInv
               PROVE  LocalChangesWhole
    OBVIOUS
  <2>1. Range(<<>>) = {}
    BY NothingRead DEF Range
  <2>2. SyncsAreWhole
    BY <2>1 DEF LocalIInv, Alone, Agrees, SyncsAreWhole
  <2>3. QED
    BY <2>2 DEF LocalIInv, LocalTyped, LocalChangesWhole
<1>2. QED
  BY <1>1, LocalInitKeepsInv, LocalStepKeepsInv, PTL DEF LocalSpec

------------------------------------------------------------------------------
(* The previews.                                                           *)

StartSteps == {"new", "creating", "recording", "withdrawing", "waiting",
               "ready", "ended", "unknown", "returned", "raised"}

AskSteps == {"new", "read", "waiting", "commits", "forgets", "done"}

Request == [step : AskSteps, of : Previews \cup {NoRequest}, row : Row \cup {NoRow}]

PreviewsTyped ==
    /\ PreviewsTypeOK
    /\ starting \in [Previews -> StartSteps]
    /\ asking \in [Asking -> Request]

\* The processes that count against the limit.
Busy == {q \in _active : Lives(q)}

\* No process that lives, but for one that outlived a crash.
Over(p) == ~Lives(p) \/ p \in orphaned

\* How far a request to start a process is, and what is there of the process.
Begun(p) ==
    /\ starting[p] \in {"new", "creating"} => child[p] = "none" /\ rows[p] = NoRow
    /\ starting[p] = "creating" <=> startLock = p
    /\ starting[p] \in {"waiting", "ready", "ended", "unknown"} => rows[p] \in Row
    /\ starting[p] = "ended" => ~Lives(p)

\* A request that asks has read a row; what it read or found to be over is over.
Asks(a) ==
    LET q == asking[a]
    IN q.step \in {"read", "waiting", "commits", "forgets"} =>
          /\ q.of \in Previews /\ rows[q.of] \in Row /\ q.row \in Row
          /\ starting[q.of] \notin {"new", "creating"}
          /\ q.row.status # "RUNNING" => Over(q.of)
          /\ a \in Stops /\ q.step \in {"commits", "forgets"} => Over(q.of)
          /\ q.step \in {"waiting", "forgets"} => a \in Stops

\* The server knows what lives, and no row says that it ended.
Listed(p) ==
    Lives(p) /\ p \notin orphaned =>
        p \in _active /\ (rows[p] # NoRow => rows[p].status = "RUNNING")

\* Whoever holds the lock may add one.
Room ==
    /\ IsFiniteSet(_active)
    /\ Cardinality(Busy) <= MaxPreviews
    /\ startLock # NoRequest => Cardinality(Busy) < MaxPreviews

\* The inductive invariant of the previews.
PreviewsIInv ==
    /\ PreviewsTyped
    /\ \A p \in Previews : Begun(p) /\ Listed(p)
    /\ \A a \in Asking : Asks(a)
    /\ Room

\* A row differs from what is not stored only by what it holds.
LEMMA RowHolds ==
    ASSUME NEW status \in {"STARTING", "RUNNING", "STOPPED", "FAILED", "CANCELLED"},
           NEW health \in {"UNKNOWN", "STARTING", "READY", "FAILED", "STOPPED"}
    PROVE  [status |-> status, health |-> health] \in Row
BY DEF Row

\* When no process is added or comes to life, no more of them count.
LEMMA QuietRoom ==
    ASSUME PreviewsIInv, _active' \subseteq _active,
           \A p \in Previews : Lives(p)' => Lives(p),
           startLock' \in {startLock, NoRequest}
    PROVE  Room'
<1>1. _active \subseteq Previews /\ IsFiniteSet(_active)
  BY DEF PreviewsIInv, PreviewsTyped, PreviewsTypeOK, Room
<1>2. IsFiniteSet(_active') /\ IsFiniteSet(Busy)
  BY <1>1, FS_Subset DEF Busy
<1>3. Busy' \subseteq Busy
  BY <1>1 DEF Busy
<1>4. IsFiniteSet(Busy') /\ Cardinality(Busy') <= Cardinality(Busy)
  BY <1>2, <1>3, FS_Subset
<1>5. Cardinality(Busy') \in Nat /\ Cardinality(Busy) \in Nat
  BY <1>2, <1>4, FS_CardinalityType
<1>6. QED
  BY <1>2, <1>4, <1>5, PreviewsAssumption DEF PreviewsIInv, Room

\* A request is left alone by what keeps the rows, and kills what it takes to be over.
LEMMA QuietAsks ==
    ASSUME PreviewsIInv, NEW a \in Asking, asking'[a] = asking[a],
           \A p \in Previews : /\ Lives(p)' => Lives(p) \/ starting[p] = "creating"
                               /\ rows[p] \in Row => rows'[p] \in Row
                               /\ starting[p] \notin {"new", "creating"} =>
                                     starting'[p] \notin {"new", "creating"},
           orphaned \subseteq orphaned'
    PROVE  Asks(a)'
<1>1. Asks(a)
  BY DEF PreviewsIInv
<1>2. QED
  BY <1>1 DEF Asks, Over

LEMMA PreviewsInitKeepsInv == PreviewsInit => PreviewsIInv
<1> SUFFICES ASSUME PreviewsInit
             PROVE  PreviewsIInv
  OBVIOUS
<1>1. PreviewsTyped
  BY DEF PreviewsInit, PreviewsTyped, PreviewsTypeOK, StartSteps, AskSteps, Request, NewAsking
<1>2. \A p \in Previews : Begun(p) /\ Listed(p)
  BY PreviewsAssumption DEF PreviewsInit, Begun, Listed, Lives
<1>3. \A a \in Asking : Asks(a)
  BY DEF PreviewsInit, Asks, NewAsking
<1>4. Busy = {} /\ IsFiniteSet(_active) /\ Cardinality(Busy) = 0
  BY FS_EmptySet DEF PreviewsInit, Busy
<1>5. Room
  BY <1>4, PreviewsAssumption DEF Room, PreviewsInit
<1>6. QED
  BY <1>1, <1>2, <1>3, <1>5 DEF PreviewsIInv

\* A request to start a process.
LEMMA StartsKeepInv ==
    ASSUME PreviewsIInv, NEW p \in Previews,
           \/ StartCreates(p) \/ Created(p) \/ Recorded(p) \/ Withdrawn(p)
           \/ Waited(p) \/ StartCommits(p) \/ StartCancelled(p)
    PROVE  PreviewsIInv'
<1>1. /\ child \in [Previews -> {"none", "alive", "told", "zero", "nonzero"}]
      /\ _active \subseteq Previews /\ orphaned \subseteq Previews
      /\ startLock \in Previews \cup {NoRequest}
      /\ starting \in [Previews -> StartSteps] /\ asking \in [Asking -> Request]
      /\ rows \in [Previews -> Row \cup {NoRow}]
      /\ \A q \in Previews : Begun(q) /\ Listed(q)
      /\ asking' = asking /\ orphaned' = orphaned
  BY DEF PreviewsIInv, PreviewsTyped, PreviewsTypeOK, StartCreates, Created, Recorded,
         Withdrawn, Waited, StartCommits, StartCancelled
<1>2. /\ \A q \in Previews \ {p} : /\ child'[q] = child[q] /\ starting'[q] = starting[q]
                                   /\ rows'[q] = rows[q] /\ (q \in _active' <=> q \in _active)
      /\ starting' \in [Previews -> StartSteps]
      /\ child' \in [Previews -> {"none", "alive", "told", "zero", "nonzero"}]
      /\ _active' \subseteq Previews
      /\ startLock' \in Previews \cup {NoRequest}
      /\ startLock' # startLock => p \in {startLock, startLock'} /\ NoRequest \in {startLock, startLock'}
  <2>1. CASE StartCreates(p)
    BY <1>1, <2>1 DEF StartCreates, StartSteps
  <2>2. CASE Created(p)
    BY <1>1, <2>2 DEF Created, StartSteps, Begun
  <2>3. CASE Recorded(p)
    BY <1>1, <2>3 DEF Recorded, StartSteps, Terminated
  <2>4. CASE Withdrawn(p)
    BY <1>1, <2>4 DEF Withdrawn, StartSteps
  <2>5. CASE Waited(p)
    BY <1>1, <2>5 DEF Waited, StartSteps
  <2>6. CASE StartCommits(p)
    BY <1>1, <2>6 DEF StartCommits, StartSteps
  <2>7. CASE StartCancelled(p)
    BY <1>1, <2>7 DEF StartCancelled, StartSteps, Begun
  <2>8. QED
    BY <2>1, <2>2, <2>3, <2>4, <2>5, <2>6, <2>7
<1>3. rows' \in [Previews -> Row \cup {NoRow}] /\ (rows[p] \in Row => rows'[p] \in Row)
  <2>1. CASE rows' = rows
    BY <1>1, <2>1
  <2>2. CASE rows' = [rows EXCEPT ![p] = [status |-> "RUNNING", health |-> "STARTING"]]
    BY <1>1, <2>2 DEF Row
  <2>3. CASE StartCommits(p) /\ rows' # rows
    <3>1. rows[p] \in Row
      BY <1>1, <2>3 DEF StartCommits, Begun
    <3>2. rows[p].status \in {"STARTING", "RUNNING", "STOPPED", "FAILED", "CANCELLED"}
          /\ [rows[p] EXCEPT !.health = "READY"] \in Row
          /\ [status |-> "FAILED", health |-> "FAILED"] \in Row
      BY <3>1 DEF Row
    <3>3. PICK row \in Row : rows' = [rows EXCEPT ![p] = row]
      BY <2>3, <3>1, <3>2, <1>1 DEF StartCommits
    <3>4. QED
      BY <1>1, <3>3
  <2>4. QED
    BY <2>1, <2>2, <2>3 DEF StartCreates, Created, Recorded, Withdrawn, Waited, StartCancelled
<1>4. Begun(p)' /\ Listed(p)'
  <2>1. CASE StartCreates(p)
    BY <1>1, <2>1 DEF StartCreates, Begun, Listed, Lives
  <2>2. CASE Created(p)
    BY <1>1, <2>2, PreviewsAssumption DEF Created, Begun, Listed, Lives
  <2>3. CASE Recorded(p)
    <3>1. rows'[p] = rows[p] \/ rows'[p] = [status |-> "RUNNING", health |-> "STARTING"]
      BY <1>1, <2>3 DEF Recorded
    <3>2. Lives(p)' => Lives(p)
      BY <1>1, <2>3 DEF Recorded, Terminated, Lives
    <3>3. starting'[p] \in {"waiting", "withdrawing"} /\ startLock' = startLock /\ _active' = _active
      BY <1>1, <2>3 DEF Recorded
    <3>4. starting'[p] = "waiting" => rows'[p] \in Row
      BY <1>1, <2>3, RowHolds DEF Recorded
    <3>5. QED
      BY <1>1, <2>3, <3>1, <3>2, <3>3, <3>4 DEF Begun, Listed, Recorded
  <2>4. CASE Withdrawn(p)
    BY <1>1, <2>4 DEF Withdrawn, Begun, Listed, Lives
  <2>5. CASE Waited(p)
    BY <1>1, <2>5 DEF Waited, Begun, Listed, Lives
  <2>6. CASE StartCommits(p)
    <3>1. rows[p] \in Row /\ child' = child /\ starting'[p] = "returned"
          /\ startLock' = startLock /\ _active' = _active
      BY <1>1, <2>6 DEF StartCommits, Begun
    <3>2. Lives(p) => starting[p] \in {"ready", "unknown"}
      BY <1>1, <2>6 DEF StartCommits, Begun
    <3>3. Lives(p) => rows'[p] = rows[p] \/ rows'[p] = [rows[p] EXCEPT !.health = "READY"]
      BY <1>1, <2>6, <3>2 DEF StartCommits
    <3>4. rows[p] # NoRow /\ Lives(p) => rows'[p].status = rows[p].status
      BY <3>1, <3>3 DEF Row
    <3>6. Lives(p)' <=> Lives(p)
      BY <3>1 DEF Lives
    <3>7. Begun(p)'
      BY <1>1, <2>6, <3>1 DEF Begun, StartCommits
    <3>8. Listed(p)'
      BY <1>1, <3>1, <3>4, <3>6, PreviewsAssumption DEF Listed
    <3>9. QED
      BY <3>7, <3>8
  <2>7. CASE StartCancelled(p)
    BY <1>1, <2>7, PreviewsAssumption DEF StartCancelled, Begun, Listed, Lives
  <2>8. QED
    BY <2>1, <2>2, <2>3, <2>4, <2>5, <2>6, <2>7
<1>5. \A q \in Previews \ {p} : Begun(q)' /\ Listed(q)'
  BY <1>1, <1>2, PreviewsAssumption DEF Begun, Listed, Lives
<1>6. \A q \in Previews : Lives(q)' => Lives(q) \/ starting[q] = "creating"
  BY <1>1, <1>2 DEF Lives, StartCreates, Created, Recorded, Withdrawn,
                    Waited, StartCommits, StartCancelled, Terminated
<1>7. starting[p] \notin {"new", "creating"} => starting'[p] \notin {"new", "creating"}
  BY <1>1 DEF StartCreates, Created, Recorded, Withdrawn, Waited, StartCommits, StartCancelled
<1>8. \A a \in Asking : Asks(a)'
  BY <1>1, <1>2, <1>3, <1>6, <1>7, QuietAsks
<1>9. Room'
  <2>1. CASE Created(p) /\ child' # child
    <3>1. startLock = p /\ ~Lives(p) /\ _active' = _active \cup {p} /\ startLock' = NoRequest
      BY <1>1, <2>1 DEF Created, Begun, Lives
    <3>2. Busy' = Busy \cup {p} /\ p \notin Busy
      BY <1>1, <1>2, <2>1, <3>1 DEF Busy, Lives, Created
    <3>3. IsFiniteSet(_active) /\ IsFiniteSet(Busy)
      BY FS_Subset DEF PreviewsIInv, Room, Busy
    <3>4. Cardinality(Busy') = Cardinality(Busy) + 1 /\ IsFiniteSet(_active')
      BY <3>1, <3>2, <3>3, FS_AddElement
    <3>5. Cardinality(Busy) \in Nat /\ Cardinality(Busy) < MaxPreviews
      BY <3>1, <3>3, FS_CardinalityType, PreviewsAssumption DEF PreviewsIInv, Room
    <3>6. QED
      BY <3>1, <3>4, <3>5, PreviewsAssumption DEF Room
  <2>2. CASE StartCreates(p) /\ startLock' # startLock
    <3>1. _active' = _active /\ child' = child /\ Cardinality(Busy) < MaxPreviews
      <4>1. ~(Cardinality(Busy) >= MaxPreviews) /\ _active' = _active /\ child' = child
        BY <2>2 DEF StartCreates, Busy
      <4>2. Cardinality(Busy) \in Nat
        BY FS_Subset, FS_CardinalityType DEF PreviewsIInv, Room, Busy
      <4>3. QED
        BY <4>1, <4>2, PreviewsAssumption
    <3>2. Busy' = Busy
      BY <3>1 DEF Busy, Lives
    <3>3. QED
      BY <3>1, <3>2 DEF PreviewsIInv, Room
  <2>3. CASE ~(Created(p) /\ child' # child) /\ ~(StartCreates(p) /\ startLock' # startLock)
    <3>1. Created(p) => _active' = _active /\ child' = child /\ startLock' = NoRequest
      BY <1>1, <2>3 DEF Created, Begun
    <3>2. _active' \subseteq _active /\ startLock' \in {startLock, NoRequest}
      BY <2>3, <3>1 DEF StartCreates, Recorded, Withdrawn, Waited, StartCommits, StartCancelled
    <3>3. \A q \in Previews : Lives(q)' => Lives(q)
      BY <1>1, <1>2, <3>1 DEF Lives, StartCreates, Recorded, Withdrawn,
                              Waited, StartCommits, StartCancelled, Terminated
    <3>4. QED
      BY <3>2, <3>3, QuietRoom
  <2>4. QED
    BY <2>1, <2>2, <2>3
<1>10. PreviewsTyped'
  BY <1>1, <1>2, <1>3 DEF PreviewsTyped, PreviewsTypeOK
<1>11. QED
  BY <1>4, <1>5, <1>8, <1>9, <1>10 DEF PreviewsIInv

\* A request that inspects or stops a process, which never makes one live.
LEMMA AskingKeepsInv ==
    ASSUME PreviewsIInv, NEW a \in Asking,
           \/ \E p \in Previews : AsksFor(a, p)
           \/ Inspects(a) \/ InspectCommits(a)
           \/ Finishes(a) \/ Ended(a) \/ StopCommits(a) \/ Forgets(a)
           \/ AskingCancelled(a)
    PROVE  PreviewsIInv'
<1>1. /\ child \in [Previews -> {"none", "alive", "told", "zero", "nonzero"}]
      /\ _active \subseteq Previews /\ orphaned \subseteq Previews
      /\ startLock \in Previews \cup {NoRequest}
      /\ starting \in [Previews -> StartSteps] /\ asking \in [Asking -> Request]
      /\ rows \in [Previews -> Row \cup {NoRow}]
      /\ \A q \in Previews : Begun(q) /\ Listed(q)
      /\ \A b \in Asking : Asks(b)
      /\ starting' = starting /\ orphaned' = orphaned /\ startLock' = startLock
  BY DEF PreviewsIInv, PreviewsTyped, PreviewsTypeOK, AsksFor, Inspects, InspectCommits,
         Finishes, Ended, StopCommits, Forgets, AskingCancelled
<1> DEFINE of == asking[a].of
           row == asking[a].row
<1>2. /\ \A b \in Asking \ {a} : asking'[b] = asking[b]
      /\ child' \in [Previews -> {"none", "alive", "told", "zero", "nonzero"}]
      /\ \A q \in Previews : (Lives(q)' => Lives(q)) /\ (child[q] = "none" => child'[q] = "none")
      /\ _active' \in {_active, _active \ {of}}
  <2>1. CASE \E p \in Previews : AsksFor(a, p)
    BY <1>1, <2>1 DEF AsksFor, Lives
  <2>2. CASE Inspects(a)
    BY <1>1, <2>2 DEF Inspects, Lives
  <2>3. CASE InspectCommits(a)
    BY <1>1, <2>3 DEF InspectCommits, Lives
  <2>4. CASE Finishes(a)
    BY <1>1, <2>4 DEF Finishes, Lives, Terminated
  <2>5. CASE Ended(a)
    BY <1>1, <2>5 DEF Ended, Lives, Killed
  <2>6. CASE StopCommits(a)
    BY <1>1, <2>6 DEF StopCommits, Lives
  <2>7. CASE Forgets(a)
    BY <1>1, <2>7 DEF Forgets, Lives
  <2>8. CASE AskingCancelled(a)
    BY <1>1, <2>8 DEF AskingCancelled, Lives
  <2>9. QED
    BY <2>1, <2>2, <2>3, <2>4, <2>5, <2>6, <2>7, <2>8
<1>3. /\ rows' \in [Previews -> Row \cup {NoRow}]
      /\ \A q \in Previews : /\ q # of => rows'[q] = rows[q]
                             /\ rows[q] \in Row => rows'[q] \in Row
      /\ rows' # rows => of \in Previews /\ rows[of] \in Row
      /\ rows' # rows /\ ~Over(of) => rows'[of].status = rows[of].status
  <2>1. CASE rows' = rows
    BY <1>1, <2>1
  <2>2. CASE InspectCommits(a) /\ rows' # rows
    <3>1. of \in Previews /\ rows[of] \in Row /\ row \in Row
          /\ (row.status # "RUNNING" => Over(of))
      BY <1>1, <2>2 DEF InspectCommits, Asks
    <3>2. rows' = [rows EXCEPT ![of] =
                      [status |-> IF row.status # "RUNNING" THEN row.status ELSE rows[of].status,
                       health |-> row.health]]
      BY <1>1, <2>2, <3>1 DEF InspectCommits
    <3>3. /\ row.status \in {"STARTING", "RUNNING", "STOPPED", "FAILED", "CANCELLED"}
          /\ rows[of].status \in {"STARTING", "RUNNING", "STOPPED", "FAILED", "CANCELLED"}
          /\ row.health \in {"UNKNOWN", "STARTING", "READY", "FAILED", "STOPPED"}
      BY <3>1 DEF Row
    <3>4. rows'[of] \in Row
      BY <1>1, <3>1, <3>2, <3>3, RowHolds
    <3>5. ~Over(of) => rows'[of].status = rows[of].status
      BY <1>1, <3>1, <3>2
    <3>6. QED
      BY <1>1, <3>1, <3>2, <3>4, <3>5
  <2>3. CASE StopCommits(a) /\ rows' # rows
    <3>1. of \in Previews /\ rows[of] \in Row /\ row \in Row /\ Over(of)
      BY <1>1, <2>3 DEF StopCommits, Asks
    <3>2. PICK status, health :
             /\ status \in {"STOPPED", rows[of].status} /\ health \in {"STOPPED", rows[of].health}
             /\ rows' = [rows EXCEPT ![of] = [status |-> status, health |-> health]]
      BY <1>1, <2>3, <3>1 DEF StopCommits
    <3>3. /\ status \in {"STARTING", "RUNNING", "STOPPED", "FAILED", "CANCELLED"}
          /\ health \in {"UNKNOWN", "STARTING", "READY", "FAILED", "STOPPED"}
      BY <3>1, <3>2 DEF Row
    <3>4. rows'[of] \in Row
      BY <1>1, <3>1, <3>2, <3>3, RowHolds
    <3>5. QED
      BY <1>1, <3>1, <3>2, <3>4
  <2>4. QED
    BY <2>1, <2>2, <2>3 DEF AsksFor, Inspects, Finishes, Ended, Forgets, AskingCancelled
<1>4. \A q \in Previews : (Over(q) => Over(q)') /\ (starting[q] \in {"new", "creating"} => rows'[q] = rows[q])
  <2>1. rows' # rows => starting[of] \notin {"new", "creating"}
    BY <1>1 DEF Asks, AsksFor, Inspects, InspectCommits, Finishes, Ended, StopCommits, Forgets,
                AskingCancelled
  <2>2. QED
    BY <1>1, <1>2, <1>3, <2>1 DEF Over
<1>5. \A q \in Previews : Begun(q)'
  BY <1>1, <1>2, <1>3, <1>4 DEF Begun
<1>6. \A q \in Previews : Listed(q)'
  <2> SUFFICES ASSUME NEW q \in Previews, Lives(q)', q \notin orphaned
               PROVE  q \in _active' /\ (rows'[q] # NoRow => rows'[q].status = "RUNNING")
    BY <1>1 DEF Listed
  <2>1. Lives(q) /\ ~Over(q) /\ Listed(q)
    BY <1>1, <1>2 DEF Over
  <2>2. _active' # _active => q # of
    <3>1. _active' # _active => a \in Stops /\ asking[a].step = "forgets"
      BY <1>1 DEF Asks, AsksFor, Inspects, InspectCommits, Finishes, Ended, StopCommits, Forgets,
                  AskingCancelled
    <3>2. QED
      BY <1>1, <2>1, <3>1 DEF Asks
  <2>3. rows'[q] # NoRow => rows'[q].status = "RUNNING"
    <3>1. CASE rows'[q] = rows[q]
      BY <1>1, <2>1, <3>1 DEF Listed
    <3>2. CASE rows'[q] # rows[q]
      <4>1. q = of /\ rows[q] \in Row /\ rows'[q].status = rows[q].status
        BY <1>3, <2>1, <3>2
      <4>2. QED
        BY <2>1, <4>1, PreviewsAssumption DEF Listed
    <3>3. QED
      BY <3>1, <3>2
  <2>4. QED
    BY <1>1, <1>2, <2>1, <2>2, <2>3 DEF Listed
<1>7. asking' \in [Asking -> Request] /\ Asks(a)'
  <2>1. CASE \E p \in Previews : AsksFor(a, p)
    <3>1. PICK p \in Previews : AsksFor(a, p)
      BY <2>1
    <3>2. rows[p] \in Row /\ starting[p] \notin {"new", "creating"}
      BY <1>1, <3>1 DEF AsksFor, Begun
    <3>3. [step |-> "read", of |-> p, row |-> rows[p]] \in Request
      BY <3>2 DEF Request, AskSteps
    <3>4. rows[p] # NoRow /\ rows[p].status # "RUNNING" => Over(p)
      BY <1>1 DEF Listed, Over
    <3>5. /\ asking' = [asking EXCEPT ![a] = [step |-> "read", of |-> p, row |-> rows[p]]]
          /\ rows' = rows /\ rows[p] # NoRow
      BY <3>1 DEF AsksFor
    <3>6. QED
      BY <1>1, <1>4, <3>2, <3>3, <3>4, <3>5 DEF Asks
  <2>2. CASE ~\E p \in Previews : AsksFor(a, p)
    <3>1. asking[a].step \in {"read", "waiting", "commits", "forgets"}
      BY <2>2 DEF Inspects, InspectCommits, Finishes, Ended, StopCommits, Forgets, AskingCancelled
    <3>2. of \in Previews /\ rows[of] \in Row /\ row \in Row
          /\ starting[of] \notin {"new", "creating"} /\ rows'[of] \in Row
          /\ (row.status # "RUNNING" => Over(of)) /\ asking[a] \in Request
          /\ (a \in Stops /\ asking[a].step \in {"commits", "forgets"} => Over(of))
      BY <1>1, <1>3, <3>1 DEF Asks
    <3>3. CASE \E step \in {"waiting", "commits", "forgets", "done"} :
                 /\ asking' = [asking EXCEPT ![a].step = step]
                 /\ step # "done" => a \in Stops /\ (step # "waiting" => Over(of)')
      <4>1. PICK step \in {"waiting", "commits", "forgets", "done"} :
                 /\ asking' = [asking EXCEPT ![a].step = step]
                 /\ step # "done" => a \in Stops /\ (step # "waiting" => Over(of)')
        BY <3>3
      <4>2. /\ asking'[a].step = step /\ asking'[a].of = of /\ asking'[a].row = row
            /\ asking' \in [Asking -> Request]
        BY <1>1, <3>2, <4>1 DEF Request, AskSteps
      <4>3. QED
        BY <1>1, <1>4, <3>2, <4>1, <4>2 DEF Asks
    <3>4. CASE \E new \in Row :
                 /\ asking' = [asking EXCEPT ![a] = [@ EXCEPT !.step = "commits", !.row = new]]
                 /\ a \in Inspections /\ (new.status # "RUNNING" => Over(of))
      <4>1. PICK new \in Row :
                 /\ asking' = [asking EXCEPT ![a] = [@ EXCEPT !.step = "commits", !.row = new]]
                 /\ a \in Inspections /\ (new.status # "RUNNING" => Over(of))
        BY <3>4
      <4>2. /\ asking'[a].step = "commits" /\ asking'[a].of = of /\ asking'[a].row = new
            /\ asking' \in [Asking -> Request] /\ a \notin Stops
        BY <1>1, <3>2, <4>1, PreviewsAssumption DEF Request, AskSteps
      <4>3. QED
        BY <1>1, <1>4, <3>2, <4>1, <4>2 DEF Asks
    <3>5. CASE Inspects(a)
      <4>1. CASE asking' = [asking EXCEPT ![a].step = "done"]
        BY <3>3, <4>1
      <4>2. CASE asking' # [asking EXCEPT ![a].step = "done"]
        <5>1. PICK new :
                 /\ \/ ~Lives(of) /\ new = [status |-> IF child[of] = "zero" THEN "STOPPED" ELSE "FAILED",
                                            health |-> "STOPPED"]
                    \/ new = [row EXCEPT !.health = "READY"]
                 /\ asking' = [asking EXCEPT ![a] = [@ EXCEPT !.step = "commits", !.row = new]]
                 /\ a \in Inspections
          BY <3>5, <4>2 DEF Inspects
        <5>2. new \in Row
          BY <3>2, <5>1 DEF Row
        <5>3. new.status # "RUNNING" => Over(of)
          BY <3>2, <5>1 DEF Row, Over
        <5>4. QED
          BY <3>4, <5>1, <5>2, <5>3
      <4>3. QED
        BY <4>1, <4>2
    <3>6. CASE ~Inspects(a)
      <4>1. CASE Finishes(a)
        <5>1. a \in Stops /\ (asking' = [asking EXCEPT ![a].step = "waiting"]
                \/ (asking' = [asking EXCEPT ![a].step = "commits"] /\ ~(of \in _active /\ Lives(of))))
          BY <4>1 DEF Finishes, Known
        <5>2. ~(of \in _active /\ Lives(of)) => Over(of)'
          <6>1. of \in Previews /\ Listed(of)
            BY <1>1, <3>2
          <6>2. ~(of \in _active /\ Lives(of)) => Over(of)
            BY <6>1 DEF Listed, Over
          <6>3. asking'[a].of = of
            BY <1>1, <5>1, <3>2 DEF Request
          <6>4. QED
            BY <1>4, <6>1, <6>2, <6>3 DEF Over, Lives
        <5>3. \E step \in {"waiting", "commits"} :
                 /\ asking' = [asking EXCEPT ![a].step = step]
                 /\ step # "waiting" => Over(of)'
          BY <5>1, <5>2
        <5>4. QED
          BY <3>3, <5>1, <5>3
      <4>2. CASE Ended(a)
        <5>1. a \in Stops /\ asking' = [asking EXCEPT ![a].step = "commits"]
          BY <1>1, <4>2 DEF Ended, Asks
        <5>2. Over(of)'
          BY <1>1, <3>2, <4>2 DEF Ended, Over, Lives, Killed
        <5>3. QED
          BY <3>3, <5>1, <5>2
      <4>3. CASE StopCommits(a)
        <5>1. /\ a \in Stops /\ Over(of)
              /\ \E step \in {"forgets", "done"} : asking' = [asking EXCEPT ![a].step = step]
          BY <3>2, <4>3 DEF StopCommits
        <5>2. Over(of)'
          BY <1>4, <3>2, <5>1
        <5>3. QED
          BY <3>3, <5>1, <5>2
      <4>4. CASE InspectCommits(a) \/ Forgets(a) \/ AskingCancelled(a)
        <5>1. asking' = [asking EXCEPT ![a].step = "done"]
          BY <4>4 DEF InspectCommits, Forgets, AskingCancelled
        <5>2. QED
          BY <3>3, <5>1
      <4>5. QED
        BY <2>2, <3>6, <4>1, <4>2, <4>3, <4>4
    <3>7. QED
      BY <3>5, <3>6
  <2>3. QED
    BY <2>1, <2>2
<1>8. \A b \in Asking : Asks(b)'
  BY <1>1, <1>2, <1>3, <1>7, QuietAsks
<1>9. Room'
  BY <1>1, <1>2, QuietRoom
<1>10. PreviewsTyped'
  BY <1>1, <1>2, <1>3, <1>7 DEF PreviewsTyped, PreviewsTypeOK
<1>11. QED
  BY <1>5, <1>6, <1>8, <1>9, <1>10 DEF PreviewsIInv

\* A process ends by itself.
LEMMA ExitKeepsInv ==
    ASSUME PreviewsIInv, NEW p \in Previews, ProcessExits(p)
    PROVE  PreviewsIInv'
<1>1. /\ PreviewsTyped' /\ _active' = _active /\ startLock' = startLock /\ starting' = starting
      /\ asking' = asking /\ rows' = rows /\ orphaned' = orphaned
      /\ \A q \in Previews : (Lives(q)' => Lives(q)) /\ (child[q] = "none" => child'[q] = "none")
  BY DEF PreviewsIInv, PreviewsTyped, PreviewsTypeOK, ProcessExits, Lives
<1>2. \A q \in Previews : Begun(q)' /\ Listed(q)'
  BY <1>1 DEF PreviewsIInv, Begun, Listed
<1>3. \A a \in Asking : Asks(a)'
  BY <1>1, QuietAsks
<1>4. Room'
  BY <1>1, QuietRoom
<1>5. QED
  BY <1>1, <1>2, <1>3, <1>4 DEF PreviewsIInv

\* The server goes: what it knew ends with it, or outlives it.
LEMMA ServerGoesKeepsInv == PreviewsIInv /\ (Shutdown \/ ServerDies) => PreviewsIInv'
<1> SUFFICES ASSUME PreviewsIInv, Shutdown \/ ServerDies
             PROVE  PreviewsIInv'
  OBVIOUS
<1>1. /\ child \in [Previews -> {"none", "alive", "told", "zero", "nonzero"}]
      /\ orphaned \subseteq Previews
      /\ startLock \in Previews \cup {NoRequest}
      /\ starting \in [Previews -> StartSteps] /\ asking \in [Asking -> Request]
      /\ rows \in [Previews -> Row \cup {NoRow}]
      /\ \A q \in Previews : Begun(q) /\ Listed(q)
      /\ _active' = {} /\ rows' = rows
  BY DEF PreviewsIInv, PreviewsTyped, PreviewsTypeOK, Shutdown, ServerDies
<1>2. /\ child' \in [Previews -> {"none", "alive", "told", "zero", "nonzero"}]
      /\ orphaned' \subseteq Previews /\ startLock' = NoRequest
      /\ starting' \in [Previews -> {"new", "returned", "raised"}]
      /\ \A q \in Previews : /\ child[q] = "none" => child'[q] = "none"
                             /\ Lives(q)' => q \in orphaned'
                             /\ starting'[q] = "new" => starting[q] = "new"
  <2>1. CASE Shutdown
    <3>1. startLock = NoRequest
      BY <1>1, <2>1 DEF Shutdown, Begun
    <3>2. QED
      BY <1>1, <2>1, <3>1 DEF Shutdown, Lives, Listed
  <2>2. CASE ServerDies
    BY <1>1, <2>2 DEF ServerDies, Lives, StartSteps
  <2>3. QED
    BY <2>1, <2>2
<1>3. \A a \in Asking : asking'[a] \in Request /\ asking'[a].step \in {"new", "done"}
  BY <1>1 DEF Shutdown, ServerDies, NewAsking, Request, AskSteps
<1>4. asking' \in [Asking -> Request]
  <2>1. DOMAIN asking' = Asking /\ asking' = [a \in Asking |-> asking'[a]]
    BY <1>1 DEF Shutdown, ServerDies
  <2>2. QED
    BY <1>3, <2>1
<1>5. \A q \in Previews : Begun(q)' /\ Listed(q)'
  BY <1>1, <1>2, PreviewsAssumption DEF Begun, Listed
<1>6. \A a \in Asking : Asks(a)'
  BY <1>3 DEF Asks
<1>7. Busy' = {} /\ IsFiniteSet(_active') /\ Cardinality(Busy') = 0
  BY <1>1, FS_EmptySet DEF Busy
<1>8. Room'
  BY <1>2, <1>7, PreviewsAssumption DEF Room
<1>9. PreviewsTyped'
  BY <1>1, <1>2, <1>4 DEF PreviewsTyped, PreviewsTypeOK, StartSteps
<1>10. QED
  BY <1>5, <1>6, <1>8, <1>9 DEF PreviewsIInv

LEMMA PreviewsStepKeepsInv == PreviewsIInv /\ [PreviewsNext]_previewVars => PreviewsIInv'
<1> SUFFICES ASSUME PreviewsIInv, [PreviewsNext]_previewVars
             PROVE  PreviewsIInv'
  OBVIOUS
<1>1. CASE UNCHANGED previewVars
  <2>1. PreviewsTyped' /\ (\A p \in Previews : Begun(p)' /\ Listed(p)') /\ (\A a \in Asking : Asks(a)')
    BY <1>1 DEF previewVars, PreviewsIInv, PreviewsTyped, PreviewsTypeOK, Begun, Listed, Asks, Over, Lives
  <2>2. Room'
    BY <1>1, QuietRoom DEF previewVars, Lives
  <2>3. QED
    BY <2>1, <2>2 DEF PreviewsIInv
<1>2. CASE Shutdown \/ ServerDies
  BY <1>2, ServerGoesKeepsInv
<1>3. CASE \E p \in Previews : ProcessExits(p)
  BY <1>3, ExitKeepsInv
<1>4. CASE \E p \in Previews : \/ StartCreates(p) \/ Created(p) \/ Recorded(p) \/ Withdrawn(p)
                               \/ Waited(p) \/ StartCommits(p) \/ StartCancelled(p)
  BY <1>4, StartsKeepInv
<1>5. CASE \E a \in Asking : \/ \E p \in Previews : AsksFor(a, p)
                             \/ Inspects(a) \/ InspectCommits(a)
                             \/ Finishes(a) \/ Ended(a) \/ StopCommits(a) \/ Forgets(a)
                             \/ AskingCancelled(a)
  BY <1>5, AskingKeepsInv
<1>6. QED
  BY <1>1, <1>2, <1>3, <1>4, <1>5 DEF PreviewsNext

\* For any number of requests and any limit: the server knows every process that
\* lives, they are never more than allowed, and a row says that a process ended only
\* of one that did, but for the processes that outlived a crash.
THEOREM AlwaysAccounted == PreviewsSpec => []PreviewsAccounted
<1>1. PreviewsIInv => PreviewsAccounted
  <2> SUFFICES ASSUME PreviewsIInv
               PROVE  PreviewsAccounted
    OBVIOUS
  <2> DEFINE living == {p \in Previews : Lives(p)} \ orphaned
  <2>1. living \subseteq Busy /\ IsFiniteSet(Busy)
    BY FS_Subset DEF PreviewsIInv, Listed, Busy, Room
  <2>2. Cardinality(living) <= Cardinality(Busy) /\ IsFiniteSet(living)
    BY <2>1, FS_Subset
  <2>3. Cardinality(living) \in Nat /\ Cardinality(Busy) \in Nat
    BY <2>1, <2>2, FS_CardinalityType
  <2>4. living \subseteq _active
    BY <2>1 DEF Busy
  <2>5. \A p \in living : rows[p] # NoRow => rows[p].status = "RUNNING"
    BY DEF PreviewsIInv, Listed
  <2>6. Cardinality(living) <= MaxPreviews
    BY <2>2, <2>3, PreviewsAssumption DEF PreviewsIInv, Room
  <2>7. QED
    BY <2>4, <2>5, <2>6 DEF PreviewsAccounted, PreviewsIInv, PreviewsTyped
<1>2. QED
  BY <1>1, PreviewsInitKeepsInv, PreviewsStepKeepsInv, PTL DEF PreviewsSpec

------------------------------------------------------------------------------
(* The registry.                                                           *)

USE RegistryAssumption, Deployment

\* Past both locks.
Deep(t) == sections[t].step \in {"loaded", "changed", "saving"}

\* Whoever is in a section holds the locks of it.
Owned ==
    \A t \in Threads :
        /\ sections[t].step \notin {"idle", "waiting"} => _lock[process[t]] = t
        /\ Deep(t) /\ os_name = "nt" => mutex = t

\* An update is in one section, as long as it is open.
InHand ==
    /\ \A t \in Threads :
          sections[t].update # NoOne =>
              sections[t].mission \in Updates /\ updates[sections[t].update] = "open"
    /\ \A s, t \in Threads :
          sections[s].update = sections[t].update /\ sections[t].update # NoOne => s = t

\* What a section may have in hand at each step.
Staged ==
    \A t \in Threads :
        /\ sections[t].step = "idle" => sections[t].update = NoOne
        /\ sections[t].step \in {"changed", "saving"} => sections[t].update # NoOne
        /\ sections[t].step # "saving" => ~sections[t].blind

\* The file holds what was saved, and no mission before it was created.
FileIsDurable ==
    \A m \in Updates :
        /\ mission_file[m] # {} => updates[m] = "saved"
        /\ \A u \in mission_file[m] : updates[u] = "saved"

Loaded(t) == missions[process[t]] \in {mission_file, Nothing}

\* The mission in hand is the one in the file, and the update.
Changed(t) ==
    LET m == sections[t].mission
        u == sections[t].update
    IN /\ sections[t].value = mission_file[m] \cup {u}
       /\ m = u \/ mission_file[m] # {}

\* What is written: the file with the mission in hand, or that mission alone.
Written(t) ==
    missions[process[t]] =
        [n \in Updates |-> IF n = sections[t].mission THEN sections[t].value
                           ELSE IF sections[t].blind THEN {} ELSE mission_file[n]]

Progressing ==
    \A t \in Threads :
        /\ sections[t].step = "loaded" => Loaded(t)
        /\ sections[t].step \in {"changed", "saving"} => Changed(t)
        /\ sections[t].step = "saving" => Written(t)

RegistryIInv ==
    /\ RegistryTypeOK
    /\ Owned
    /\ InHand
    /\ Staged
    /\ FileIsDurable
    /\ Progressing

------------------------------------------------------------------------------
(* The locks.                                                              *)

\* Two sections are never past both locks.
LEMMA OneSection ==
  ASSUME RegistryTypeOK, Owned, NEW s \in Threads, NEW t \in Threads, Deep(s), Deep(t)
  PROVE  s = t
<1>1. CASE os_name = "nt"
  BY <1>1 DEF Owned
<1>2. CASE os_name # "nt"
  <2>1. process[s] = process[t]
    BY <1>2
  <2>2. _lock[process[s]] = s /\ _lock[process[t]] = t
    BY DEF Owned, Deep
  <2>3. QED
    BY <2>1, <2>2
<1>3. QED
  BY <1>1, <1>2

\* What the end of a section does to the locks and to the updates.
LEMMA LeavesSafely ==
  ASSUME RegistryIInv, NEW t \in Threads, sections[t].step \notin {"idle", "waiting"},
         NEW outcome \in {"saved", "refused"}, Leaves(t, outcome)
  PROVE  /\ Owned' /\ InHand' /\ Staged'
         /\ _lock' \in [Processes -> Threads \cup {NoOne}]
         /\ mutex' \in Threads \cup {NoOne}
         /\ sections' \in [Threads -> Section]
         /\ sections'[t] = Outside
         /\ \A s \in Threads : s # t => sections'[s] = sections[s]
         /\ updates' \in [Updates -> {"new", "open", "saved", "refused"}]
         /\ \A u \in Updates : updates[u] = "saved" => updates'[u] = "saved"
<1> USE DEF RegistryIInv, RegistryTypeOK
<1>1. Outside \in Section
  BY DEF Outside, Section, Steps
<1>2. /\ sections' \in [Threads -> Section]
      /\ sections'[t] = Outside
      /\ \A s \in Threads : s # t => sections'[s] = sections[s]
  BY <1>1 DEF Leaves
<1>3. /\ _lock' \in [Processes -> Threads \cup {NoOne}]
      /\ mutex' \in Threads \cup {NoOne}
  BY DEF Leaves, Releases
<1>4. updates' \in [Updates -> {"new", "open", "saved", "refused"}]
  BY DEF Leaves
<1>5. \A u \in Updates : updates[u] = "saved" => updates'[u] = "saved"
  <2>1. \A u \in Updates : u = sections[t].update => updates[u] = "open"
    BY DEF InHand
  <2>2. QED
    BY <2>1 DEF Leaves
<1>6. _lock[process[t]] = t
  BY DEF Owned
<1>7. Owned'
  <2>1. ASSUME NEW s \in Threads, sections'[s].step \notin {"idle", "waiting"}
        PROVE  s # t /\ _lock'[process[s]] = s
    BY <1>2, <1>6, <2>1 DEF Owned, Outside, Leaves, Releases
  <2>2. ASSUME NEW s \in Threads, Deep(s)', os_name = "nt" PROVE mutex' = s
    <3>1. s # t /\ mutex = s
      BY <1>2, <2>2 DEF Owned, Deep, Outside
    <3>2. QED
      BY <3>1 DEF Leaves, Releases
  <2>3. QED
    BY <2>1, <2>2 DEF Owned
<1>8. InHand'
  <2>1. ASSUME NEW s \in Threads, sections'[s].update # NoOne
        PROVE  s # t /\ sections'[s] = sections[s] /\ sections[s].update # sections[t].update
    BY <1>2, <2>1 DEF InHand, Outside
  <2>2. \A s \in Threads : sections[s].update \in Updates \cup {NoOne}
    BY DEF Section
  <2>3. \A s \in Threads : sections'[s].update # NoOne =>
            sections'[s].mission \in Updates /\ updates'[sections'[s].update] = "open"
    BY <2>1, <2>2 DEF InHand, Leaves
  <2>4. QED
    BY <2>1, <2>3 DEF InHand
<1>9. Staged'
  BY <1>2 DEF Staged, Outside
<1>10. QED
  BY <1>2, <1>3, <1>4, <1>5, <1>7, <1>8, <1>9

\* What nobody else's section can disturb.
LEMMA Progress ==
  ASSUME RegistryIInv, NEW t \in Threads, Deep(t),
         \A s \in Threads : s # t => sections'[s] = sections[s],
         sections'[t].step = "idle"
  PROVE  Progressing'
<1>1. \A s \in Threads : ~(sections'[s].step \in {"loaded", "changed", "saving"})
  BY OneSection DEF RegistryIInv, Deep
<1>2. QED
  BY <1>1 DEF Progressing

\* A step that leaves every section its update, and the updates as they are.
Same(t) ==
    /\ sections'[t].update = sections[t].update
    /\ sections'[t].mission = sections[t].mission
    /\ sections'[t].blind = sections[t].blind

LEMMA SameHands ==
  ASSUME InHand, \A s \in Threads : Same(s), UNCHANGED updates
  PROVE  InHand'
BY DEF InHand, Same

LEMMA ProgressFrame ==
  ASSUME Progressing, UNCHANGED <<mission_file, missions>>,
         \A s \in Threads : Deep(s)' => sections'[s] = sections[s]
  PROVE  Progressing'
<1>1. \A s \in Threads : sections'[s].step \in {"loaded", "changed", "saving"} =>
          sections'[s] = sections[s]
  BY DEF Deep
<1>2. \A s \in Threads : sections'[s] = sections[s] =>
          (Loaded(s)' <=> Loaded(s)) /\ (Changed(s)' <=> Changed(s)) /\ (Written(s)' <=> Written(s))
  BY DEF Loaded, Changed, Written
<1>3. QED
  BY <1>1, <1>2 DEF Progressing

------------------------------------------------------------------------------
(* Each action keeps the invariant.                                        *)

\* A section begins: it holds nothing, and its update was new.
LEMMA BeginStep ==
  ASSUME RegistryIInv, NEW t \in Threads,
         get_mission(t) \/ \E u, m \in Updates : update_mission_status(t, u, m)
  PROVE  RegistryIInv'
<1> USE DEF RegistryIInv, RegistryTypeOK
<1>1. PICK u \in Updates \cup {NoOne}, m \in Updates \cup {NoOne} :
         /\ u \in Updates => m \in Updates /\ updates[u] = "new"
         /\ Enters(t, Waiting(u, m))
         /\ updates' = [v \in Updates |-> IF v = u THEN "open" ELSE updates[v]]
  <2>1. CASE get_mission(t)
    <3>1. updates' = [v \in Updates |-> IF v = NoOne THEN "open" ELSE updates[v]]
      BY <2>1 DEF get_mission
    <3>2. QED
      BY <2>1, <3>1 DEF get_mission
  <2>2. CASE \E u, m \in Updates : update_mission_status(t, u, m)
    <3>1. PICK u \in Updates, m \in Updates : update_mission_status(t, u, m)
      BY <2>2
    <3>2. updates' = [v \in Updates |-> IF v = u THEN "open" ELSE updates[v]]
      BY <3>1 DEF update_mission_status
    <3>3. updates[u] = "new" /\ Enters(t, Waiting(u, m))
      BY <3>1 DEF update_mission_status
    <3>4. QED
      BY <3>2, <3>3
  <2>3. QED
    BY <2>1, <2>2
<1>2. /\ sections' = [sections EXCEPT ![t] = Waiting(u, m)]
      /\ At(t, "idle")
      /\ UNCHANGED <<mission_file, missions, _lock, mutex>>
  BY <1>1 DEF Enters
<1>3. Waiting(u, m) \in Section
  BY DEF Section, Steps, Waiting
<1>4. RegistryTypeOK'
  BY <1>1, <1>2, <1>3
<1>5. /\ sections'[t] = Waiting(u, m)
      /\ \A s \in Threads : s # t => sections'[s] = sections[s]
  BY <1>2
<1>6. \A v \in Updates : updates[v] = "saved" => updates'[v] = "saved"
  BY <1>1
<1>7. Owned'
  BY <1>2, <1>5 DEF Owned, Deep, At, Waiting
<1>8. InHand'
  <2>1. \A s \in Threads : sections[s].update \in Updates \cup {NoOne}
    BY DEF Section
  <2>2. ASSUME NEW s \in Threads, s # t, u \in Updates PROVE sections[s].update # u
    BY <1>1, <2>2 DEF InHand
  <2>3. QED
    BY <1>1, <1>5, <2>1, <2>2 DEF InHand, Waiting
<1>9. Staged'
  BY <1>5 DEF Staged, Waiting
<1>10. FileIsDurable'
  BY <1>2, <1>6 DEF FileIsDurable, Store
<1>11. Progressing'
  <2>1. \A s \in Threads : Deep(s)' => sections'[s] = sections[s]
    BY <1>5 DEF Deep, Waiting
  <2>2. QED
    BY <1>2, <2>1, ProgressFrame
<1>12. QED
  BY <1>4, <1>7, <1>8, <1>9, <1>10, <1>11

LEMMA TakesLockStep ==
  ASSUME RegistryIInv, NEW t \in Threads, TakesLock(t)
  PROVE  RegistryIInv'
<1> USE DEF RegistryIInv, RegistryTypeOK
<1>1. /\ sections' \in [Threads -> Section]
      /\ sections'[t] = [sections[t] EXCEPT !.step = "locked"]
      /\ \A s \in Threads : s # t => sections'[s] = sections[s]
  BY DEF TakesLock, Section, Steps
<1>2. At(t, "waiting") /\ UNCHANGED <<mission_file, missions, mutex, updates>>
  BY DEF TakesLock
<1>3. /\ sections'[t].step = "locked" /\ sections'[t].update = sections[t].update
      /\ sections'[t].mission = sections[t].mission /\ sections'[t].blind = sections[t].blind
  BY <1>1 DEF Section
<1>4. RegistryTypeOK'
  BY <1>1 DEF TakesLock
<1>5. Owned'
  <2>1. ASSUME NEW s \in Threads, sections'[s].step \notin {"idle", "waiting"}
        PROVE  _lock'[process[s]] = s
    BY <1>1, <1>3, <2>1 DEF Owned, TakesLock
  <2>2. QED
    BY <1>1, <1>2, <1>3, <2>1 DEF Owned, Deep
<1>6. InHand' /\ Staged'
  <2>1. \A s \in Threads : Same(s) /\ (sections'[s] = sections[s] \/ ~sections[s].blind)
    BY <1>1, <1>2, <1>3 DEF Staged, At, Same
  <2>2. QED
    BY <1>1, <1>2, <1>3, <2>1, SameHands DEF Staged
<1>7. FileIsDurable'
  BY <1>2 DEF FileIsDurable
<1>8. Progressing'
  <2>1. \A s \in Threads : Deep(s)' => sections'[s] = sections[s]
    BY <1>1, <1>3 DEF Deep
  <2>2. QED
    BY <1>2, <2>1, ProgressFrame
<1>9. QED
  BY <1>4, <1>5, <1>6, <1>7, <1>8

LEMMA LoadedIsStore ==
  ASSUME RegistryTypeOK, NEW loaded \in _read_models_from_disk
  PROVE  loaded \in Store
  BY DEF RegistryTypeOK, _read_models_from_disk, Nothing, Store

LEMMA LoadStep ==
  ASSUME RegistryIInv, NEW t \in Threads, locked(t)
  PROVE  RegistryIInv'
<1> USE DEF RegistryIInv, RegistryTypeOK
<1>1. /\ sections' \in [Threads -> Section]
      /\ sections'[t] = [sections[t] EXCEPT !.step = "loaded"]
      /\ \A s \in Threads : s # t => sections'[s] = sections[s]
  BY DEF locked, Section, Steps
<1>2. At(t, "locked") /\ UNCHANGED <<mission_file, _lock, updates>>
  BY DEF locked
<1>3. PICK loaded \in _read_models_from_disk :
         missions' = [missions EXCEPT ![process[t]] = loaded]
  BY DEF locked
<1>4. /\ sections'[t].step = "loaded" /\ sections'[t].update = sections[t].update
      /\ sections'[t].mission = sections[t].mission /\ sections'[t].blind = sections[t].blind
  BY <1>1 DEF Section
<1>5. RegistryTypeOK'
  BY <1>1, <1>2, <1>3, LoadedIsStore DEF locked, _cross_process_registry_lock
<1>6. \A s \in Threads : s # t => ~Deep(s)
  <2>1. SUFFICES ASSUME NEW s \in Threads, s # t, Deep(s) PROVE FALSE
    OBVIOUS
  <2>2. CASE os_name = "nt"
    BY <2>1, <2>2 DEF Owned, locked, _cross_process_registry_lock
  <2>3. CASE os_name # "nt"
    BY <2>1, <2>3, <1>2 DEF Owned, Deep, At
  <2>4. QED
    BY <2>2, <2>3
<1>7. Owned'
  BY <1>1, <1>2, <1>4, <1>6 DEF Owned, Deep, At, locked, _cross_process_registry_lock
<1>8. InHand' /\ Staged'
  <2>1. \A s \in Threads : Same(s) /\ (sections'[s] = sections[s] \/ ~sections[s].blind)
    BY <1>1, <1>2, <1>4 DEF Staged, At, Same
  <2>2. QED
    BY <1>1, <1>2, <1>4, <2>1, SameHands DEF Staged
<1>9. FileIsDurable'
  BY <1>2 DEF FileIsDurable
<1>10. Progressing'
  <2>1. Loaded(t)'
    BY <1>2, <1>3 DEF Loaded, _read_models_from_disk
  <2>2. \A s \in Threads : s # t => ~(sections'[s].step \in {"loaded", "changed", "saving"})
    BY <1>1, <1>6 DEF Deep
  <2>3. QED
    BY <1>4, <2>1, <2>2 DEF Progressing
<1>11. QED
  BY <1>5, <1>7, <1>8, <1>9, <1>10

\* A section ends that has saved nothing.
LEMMA EndStep ==
  ASSUME RegistryIInv, NEW t \in Threads, sections[t].step \in {"locked", "loaded", "changed"},
         Leaves(t, "refused"), UNCHANGED <<mission_file, missions>>
  PROVE  RegistryIInv'
<1> USE DEF RegistryIInv, RegistryTypeOK
<1>1. /\ Owned' /\ InHand' /\ Staged'
      /\ sections'[t] = Outside
      /\ \A s \in Threads : s # t => sections'[s] = sections[s]
      /\ \A u \in Updates : updates[u] = "saved" => updates'[u] = "saved"
      /\ RegistryTypeOK'
  BY LeavesSafely
<1>2. FileIsDurable'
  BY <1>1 DEF FileIsDurable, Store
<1>3. Progressing'
  <2>1. \A s \in Threads : Deep(s)' => sections'[s] = sections[s]
    BY <1>1 DEF Deep, Outside
  <2>2. QED
    BY <2>1, ProgressFrame
<1>4. QED
  BY <1>1, <1>2, <1>3

\* The mission in hand is changed in the memory of the process.
LEMMA ChangeStep ==
  ASSUME RegistryIInv, NEW t \in Threads, Changes(t)
  PROVE  RegistryIInv'
<1> USE DEF RegistryIInv, RegistryTypeOK
<1> DEFINE m == sections[t].mission
           u == sections[t].update
           held == missions[process[t]][m]
<1>1. /\ sections[t].step = "loaded" /\ u \in Updates /\ m \in Updates
      /\ sections' = [sections EXCEPT ![t].step = "changed", ![t].value = held \cup {u}]
      /\ UNCHANGED <<mission_file, _lock, mutex, updates>>
  BY DEF Changes, At, InHand, Section
<1>2. held \in SUBSET Updates
  BY <1>1 DEF Store
<1>3. /\ sections' \in [Threads -> Section]
      /\ \A s \in Threads : s # t => sections'[s] = sections[s]
  <2>1. [sections[t] EXCEPT !.step = "changed"] \in Section
    BY DEF Section, Steps
  <2>2. [[sections[t] EXCEPT !.step = "changed"] EXCEPT !.value = held \cup {u}] \in Section
    BY <1>1, <1>2, <2>1 DEF Section
  <2>3. sections' = [sections EXCEPT
            ![t] = [[sections[t] EXCEPT !.step = "changed"] EXCEPT !.value = held \cup {u}]]
    BY <1>1
  <2>4. QED
    BY <2>2, <2>3
<1>4. /\ sections'[t].step = "changed" /\ sections'[t].value = held \cup {u}
      /\ sections'[t].update = u /\ sections'[t].mission = m
      /\ sections'[t].blind = sections[t].blind
  BY <1>1 DEF Section
<1>5. missions' \in [Processes -> Store]
  <2>1. CASE UNCHANGED missions
    BY <2>1
  <2>2. CASE missions' = [missions EXCEPT ![process[t]][m] = held \cup {u}]
    BY <1>1, <1>2, <2>2 DEF Store
  <2>3. QED
    BY <2>1, <2>2 DEF Changes
<1>6. \A p \in Processes : p # process[t] => missions'[p] = missions[p]
  BY DEF Changes
<1>7. \A s \in Threads : s # t => ~Deep(s)
  BY <1>1, OneSection DEF Deep
<1>8. Owned'
  BY <1>1, <1>3, <1>4 DEF Owned, Deep
<1>9. InHand' /\ Staged'
  <2>1. \A s \in Threads : Same(s) /\ (sections'[s] = sections[s] \/ ~sections[s].blind)
    BY <1>1, <1>3, <1>4 DEF Staged, Same
  <2>2. QED
    BY <1>1, <1>3, <1>4, <2>1, SameHands DEF Staged
<1>10. FileIsDurable'
  BY <1>1 DEF FileIsDurable
<1>11. Changed(t)'
  <2>1. missions[process[t]] \in {mission_file, Nothing}
    BY <1>1 DEF Progressing, Loaded
  <2>2. CASE u = m
    <3>1. mission_file[m] = {}
      BY <1>1, <2>2 DEF InHand, FileIsDurable
    <3>2. held = {}
      BY <1>1, <2>1, <3>1 DEF Nothing
    <3>3. QED
      BY <1>1, <1>4, <2>2, <3>1, <3>2 DEF Changed
  <2>3. CASE u # m
    <3>1. held # {}
      BY <2>3 DEF Changes, Creates
    <3>2. held = mission_file[m]
      BY <1>1, <2>1, <3>1 DEF Nothing
    <3>3. QED
      BY <1>1, <1>4, <3>1, <3>2 DEF Changed
  <2>4. QED
    BY <2>2, <2>3
<1>12. Progressing'
  <2>1. \A s \in Threads : s # t => ~(sections'[s].step \in {"loaded", "changed", "saving"})
    BY <1>3, <1>7 DEF Deep
  <2>2. QED
    BY <1>4, <1>11, <2>1 DEF Progressing
<1>13. QED
  BY <1>1, <1>3, <1>5, <1>8, <1>9, <1>10, <1>12

\* The file is loaded again and the mission put in.
LEMMA PutStep ==
  ASSUME RegistryIInv, NEW t \in Threads, save_mission(t)
  PROVE  RegistryIInv'
<1> USE DEF RegistryIInv, RegistryTypeOK
<1> DEFINE m == sections[t].mission
           value == sections[t].value
<1>1. PICK loaded \in _read_models_from_disk :
         /\ missions' = [missions EXCEPT ![process[t]] = [loaded EXCEPT ![m] = value]]
         /\ sections' = [sections EXCEPT ![t].step = "saving",
                                         ![t].blind = loaded # mission_file]
  BY DEF save_mission
<1>2. /\ sections[t].step = "changed" /\ m \in Updates
      /\ UNCHANGED <<mission_file, _lock, mutex, updates>>
  BY DEF save_mission, At, InHand, Staged
<1>3. loaded \in Store /\ value \in SUBSET Updates
  BY LoadedIsStore DEF Section
<1>4. /\ sections' \in [Threads -> Section]
      /\ \A s \in Threads : s # t => sections'[s] = sections[s]
  <2>1. [sections[t] EXCEPT !.step = "saving"] \in Section
    BY DEF Section, Steps
  <2>2. [[sections[t] EXCEPT !.step = "saving"] EXCEPT !.blind = loaded # mission_file] \in Section
    BY <2>1 DEF Section
  <2>3. sections' = [sections EXCEPT
            ![t] = [[sections[t] EXCEPT !.step = "saving"] EXCEPT !.blind = loaded # mission_file]]
    BY <1>1
  <2>4. QED
    BY <2>2, <2>3
<1>5. /\ sections'[t].step = "saving" /\ sections'[t].value = value
      /\ sections'[t].update = sections[t].update /\ sections'[t].mission = m
      /\ sections'[t].blind = (loaded # mission_file)
  BY <1>1 DEF Section
<1>6. missions' \in [Processes -> Store]
  <2>1. [loaded EXCEPT ![m] = value] \in Store
    BY <1>3 DEF Store
  <2>2. QED
    BY <1>1, <2>1
<1>7. \A s \in Threads : s # t => ~Deep(s)
  BY <1>2, OneSection DEF Deep
<1>8. Owned'
  BY <1>2, <1>4, <1>5 DEF Owned, Deep
<1>9. InHand'
  BY <1>2, <1>4, <1>5 DEF InHand
<1>10. Staged'
  BY <1>2, <1>4, <1>5 DEF Staged
<1>11. FileIsDurable'
  BY <1>2 DEF FileIsDurable
<1>12. Changed(t)' /\ Written(t)'
  <2>1. Changed(t)'
    BY <1>2, <1>5 DEF Changed, Progressing
  <2>2. loaded = [n \in Updates |-> IF loaded # mission_file THEN {} ELSE mission_file[n]]
    BY DEF _read_models_from_disk, Nothing, Store
  <2>3. [loaded EXCEPT ![m] = value] =
            [n \in Updates |-> IF n = m THEN value
                               ELSE IF loaded # mission_file THEN {} ELSE mission_file[n]]
    BY <1>2, <1>3, <2>2 DEF Store
  <2>4. missions'[process[t]] = [loaded EXCEPT ![m] = value]
    BY <1>1
  <2>5. [n \in Updates |-> IF n = m THEN value
                            ELSE IF loaded # mission_file THEN {} ELSE mission_file[n]] =
        [n \in Updates |-> IF n = sections'[t].mission THEN sections'[t].value
                           ELSE IF sections'[t].blind THEN {} ELSE mission_file'[n]]
    BY <1>2, <1>5
  <2>6. Written(t)'
    BY <2>3, <2>4, <2>5 DEF Written
  <2>7. QED
    BY <2>1, <2>6
<1>13. Progressing'
  <2>1. \A s \in Threads : s # t => ~(sections'[s].step \in {"loaded", "changed", "saving"})
    BY <1>4, <1>7 DEF Deep
  <2>2. QED
    BY <1>5, <1>12, <2>1 DEF Progressing
<1>14. QED
  BY <1>2, <1>4, <1>6, <1>8, <1>9, <1>10, <1>11, <1>13

\* What a save that succeeds leaves in the file was saved.
LEMMA ReplaceStep ==
  ASSUME RegistryIInv, NEW t \in Threads, _save_state(t)
  PROVE  RegistryIInv'
<1> USE DEF RegistryIInv, RegistryTypeOK
<1> DEFINE m == sections[t].mission
           u == sections[t].update
<1>1. /\ sections[t].step = "saving" /\ u \in Updates /\ m \in Updates
      /\ mission_file' = missions[process[t]] /\ UNCHANGED missions
      /\ Leaves(t, "saved")
  BY DEF _save_state, At, Staged, InHand, Section
<1>2. /\ Owned' /\ InHand' /\ Staged'
      /\ sections'[t] = Outside
      /\ \A s \in Threads : s # t => sections'[s] = sections[s]
      /\ \A v \in Updates : updates[v] = "saved" => updates'[v] = "saved"
      /\ updates'[u] = "saved"
      /\ RegistryTypeOK'
  BY <1>1, LeavesSafely DEF Leaves
<1>3. \A n \in Updates :
        /\ n # m => mission_file'[n] \in {mission_file[n], {}}
        /\ n = m => mission_file'[n] = mission_file[m] \cup {u}
  <2>1. Written(t) /\ Changed(t)
    BY <1>1 DEF Progressing
  <2>2. QED
    BY <1>1, <2>1 DEF Written, Changed
<1>4. updates'[m] = "saved"
  BY <1>1, <1>2 DEF Progressing, Changed, FileIsDurable
<1>5. FileIsDurable'
  <2>1. ASSUME NEW n \in Updates, mission_file'[n] # {} PROVE updates'[n] = "saved"
    BY <1>2, <1>3, <1>4, <2>1 DEF FileIsDurable
  <2>2. ASSUME NEW n \in Updates, NEW v \in mission_file'[n] PROVE updates'[v] = "saved"
    <3>1. v \in Updates
      BY <1>1, <2>2 DEF Store
    <3>2. v \in mission_file[n] \/ v = u
      BY <1>3, <2>2
    <3>3. QED
      BY <1>2, <3>1, <3>2 DEF FileIsDurable
  <2>3. QED
    BY <2>1, <2>2 DEF FileIsDurable
<1>6. Progressing'
  BY <1>1, <1>2, Progress DEF Deep, Outside
<1>7. QED
  BY <1>2, <1>5, <1>6

LEMMA FailStep ==
  ASSUME RegistryIInv, NEW t \in Threads, SaveFails(t)
  PROVE  RegistryIInv'
<1> USE DEF RegistryIInv, RegistryTypeOK
<1>1. PICK loaded \in _read_models_from_disk :
         missions' = [missions EXCEPT ![process[t]] = loaded]
  BY DEF SaveFails
<1>2. sections[t].step = "saving" /\ Leaves(t, "refused") /\ UNCHANGED mission_file
  BY DEF SaveFails, At
<1>3. /\ Owned' /\ InHand' /\ Staged'
      /\ sections'[t] = Outside
      /\ \A s \in Threads : s # t => sections'[s] = sections[s]
      /\ \A v \in Updates : updates[v] = "saved" => updates'[v] = "saved"
      /\ RegistryTypeOK'
  BY <1>1, <1>2, LeavesSafely, LoadedIsStore
<1>4. FileIsDurable'
  BY <1>2, <1>3 DEF FileIsDurable, Store
<1>5. Progressing'
  BY <1>2, <1>3, Progress DEF Deep, Outside
<1>6. QED
  BY <1>3, <1>4, <1>5

\* What a process that stops takes with it.
LEMMA RestartStep ==
  ASSUME RegistryIInv, NEW p \in Processes, Restart(p)
  PROVE  RegistryIInv'
<1> USE DEF RegistryIInv, RegistryTypeOK
<1> DEFINE mine == {t \in Threads : process[t] = p}
<1>1. /\ missions' = [missions EXCEPT ![p] = Nothing]
      /\ _lock' = [_lock EXCEPT ![p] = NoOne]
      /\ mutex' = IF mutex \in mine THEN NoOne ELSE mutex
      /\ sections' = [t \in Threads |-> IF t \in mine THEN Outside ELSE sections[t]]
      /\ updates' = [u \in Updates |-> IF \E t \in mine : sections[t].update = u
                                       THEN "refused" ELSE updates[u]]
      /\ UNCHANGED mission_file
  BY DEF Restart
<1>2. Outside \in Section /\ Nothing \in Store
  BY DEF Outside, Section, Steps, Nothing, Store
<1>3. RegistryTypeOK'
  BY <1>1, <1>2
<1>4. \A s \in Threads :
        /\ process[s] = p => sections'[s] = Outside
        /\ process[s] # p => sections'[s] = sections[s]
  BY <1>1
<1>5. \A u \in Updates : updates[u] = "saved" => updates'[u] = "saved"
  BY <1>1 DEF InHand
<1>6. Owned'
  <2>1. ASSUME NEW s \in Threads, sections'[s].step \notin {"idle", "waiting"}
        PROVE  process[s] # p /\ _lock'[process[s]] = s
    BY <1>1, <1>4, <2>1 DEF Owned, Outside
  <2>2. ASSUME NEW s \in Threads, Deep(s)', os_name = "nt" PROVE mutex' = s
    BY <1>1, <1>4, <2>2 DEF Owned, Deep, Outside
  <2>3. QED
    BY <2>1, <2>2 DEF Owned
<1>7. InHand'
  <2>1. \A s \in Threads : sections[s].update \in Updates \cup {NoOne}
    BY DEF Section
  <2>2. ASSUME NEW s \in Threads, sections'[s].update # NoOne
        PROVE  /\ process[s] # p /\ sections'[s] = sections[s]
               /\ sections[s].update \in Updates
               /\ ~ \E t \in mine : sections[t].update = sections[s].update
    <3>1. process[s] # p /\ sections'[s] = sections[s]
      BY <1>4, <2>2 DEF Outside
    <3>2. sections[s].update \in Updates
      BY <2>1, <2>2, <3>1
    <3>3. QED
      BY <2>2, <3>1, <3>2 DEF InHand
  <2>3. \A s \in Threads : sections'[s].update # NoOne =>
            sections'[s].mission \in Updates /\ updates'[sections'[s].update] = "open"
    BY <1>1, <2>2 DEF InHand
  <2>4. \A s, t \in Threads :
            sections'[s].update = sections'[t].update /\ sections'[t].update # NoOne => s = t
    BY <2>2 DEF InHand
  <2>5. QED
    BY <2>3, <2>4 DEF InHand
<1>8. Staged'
  BY <1>4 DEF Staged, Outside
<1>9. FileIsDurable'
  BY <1>1, <1>5 DEF FileIsDurable, Store
<1>10. Progressing'
  <2>1. \A s \in Threads : sections'[s].step \in {"loaded", "changed", "saving"} =>
            process[s] # p /\ sections'[s] = sections[s]
    BY <1>4 DEF Outside
  <2>2. \A s \in Threads : process[s] # p /\ sections'[s] = sections[s] =>
            (Loaded(s)' <=> Loaded(s)) /\ (Changed(s)' <=> Changed(s)) /\ (Written(s)' <=> Written(s))
    BY <1>1 DEF Loaded, Changed, Written
  <2>3. QED
    BY <2>1, <2>2 DEF Progressing
<1>11. QED
  BY <1>3, <1>6, <1>7, <1>8, <1>9, <1>10

LEMMA RegistryStep == RegistryIInv /\ [RegistryNext]_registryVars => RegistryIInv'
<1> SUFFICES ASSUME RegistryIInv, [RegistryNext]_registryVars PROVE RegistryIInv'
  OBVIOUS
<1>1. ASSUME NEW t \in Threads,
             get_mission(t) \/ \E u, m \in Updates : update_mission_status(t, u, m)
      PROVE  RegistryIInv'
  BY <1>1, BeginStep
<1>2. ASSUME NEW t \in Threads, Runs(t) PROVE RegistryIInv'
  <2>1. LockTimeout(t) \/ Returns(t) \/ Raises(t) => RegistryIInv'
    BY EndStep DEF LockTimeout, Returns, Raises, At
  <2>2. QED
    BY <1>2, <2>1, TakesLockStep, LoadStep, ChangeStep, PutStep, ReplaceStep, FailStep DEF Runs
<1>3. ASSUME NEW p \in Processes, Restart(p) PROVE RegistryIInv'
  BY <1>3, RestartStep
<1>4. CASE UNCHANGED registryVars
  BY <1>4 DEF registryVars, RegistryIInv, RegistryTypeOK, Owned, Deep, InHand, Staged,
              FileIsDurable, Progressing, Loaded, Changed, Written
<1>5. QED
  BY <1>1, <1>2, <1>3, <1>4 DEF RegistryNext

LEMMA RegistryStarts == RegistryInit => RegistryIInv
<1> SUFFICES ASSUME RegistryInit PROVE RegistryIInv
  OBVIOUS
<1> USE DEF RegistryInit
<1>1. Outside \in Section /\ Nothing \in Store
  BY DEF Outside, Section, Steps, Nothing, Store
<1>2. RegistryTypeOK
  BY <1>1 DEF RegistryTypeOK
<1>3. \A t \in Threads : sections[t] = Outside
  OBVIOUS
<1>4. Owned /\ InHand /\ Staged /\ Progressing
  BY <1>3 DEF Owned, Deep, InHand, Staged, Progressing, Outside
<1>5. FileIsDurable
  BY DEF FileIsDurable, Nothing
<1>6. QED
  BY <1>2, <1>4, <1>5 DEF RegistryIInv

LEMMA RegistryInductive == RegistrySpec => []RegistryIInv
BY RegistryStarts, RegistryStep, PTL DEF RegistrySpec

\* The registry's state has its types, for every number of processes and threads.
THEOREM RegistryTyped == RegistrySpec => []RegistryTypeOK
<1>1. RegistryIInv => RegistryTypeOK
  BY DEF RegistryIInv
<1>2. QED
  BY <1>1, RegistryInductive, PTL

\* A section works from what is saved, whatever earlier sections changed in the memory
\* without saving it, whatever fails and whichever process stops.
THEOREM SectionsAlwaysSeeOnlySaved == RegistrySpec => []SectionsSeeOnlySaved
<1>1. RegistryIInv => SectionsSeeOnlySaved
  BY DEF RegistryIInv, Progressing, Loaded, Changed, SectionsSeeOnlySaved, At
<1>2. QED
  BY <1>1, RegistryInductive, PTL

------------------------------------------------------------------------------
(* The refinement.                                                         *)

Blind == {u \in Updates : \E t \in Threads : sections[t].update = u /\ sections[t].blind}

\* How the step of a section whose update is settled is seen from outside.
LEMMA BlindEnds ==
  ASSUME RegistryIInv, NEW t \in Threads, sections[t].step \notin {"idle", "waiting"},
         NEW outcome \in {"saved", "refused"}, Leaves(t, outcome)
  PROVE  Blind' = Blind \ {sections[t].update}
<1>1. /\ sections'[t] = Outside
      /\ \A s \in Threads : s # t => sections'[s] = sections[s]
  BY LeavesSafely
<1>2. \A u \in Updates : u # sections[t].update =>
        ((\E s \in Threads : sections'[s].update = u /\ sections'[s].blind) <=>
         (\E s \in Threads : sections[s].update = u /\ sections[s].blind))
  BY <1>1 DEF Outside
<1>3. \A u \in Updates : u = sections[t].update =>
        ~ \E s \in Threads : sections'[s].update = u /\ sections'[s].blind
  BY <1>1 DEF Outside, RegistryIInv, InHand
<1>4. QED
  BY <1>2, <1>3 DEF Blind

LEMMA EndIsRefused ==
  ASSUME RegistryIInv, NEW t \in Threads, sections[t].step \notin {"idle", "waiting"},
         Leaves(t, "refused"), UNCHANGED mission_file
  PROVE  [Promise!Next]_(Promise!promiseVars)
<1>1. Blind' = Blind \ {sections[t].update}
  BY BlindEnds
<1>2. CASE sections[t].update = NoOne
  <2>1. NoOne \notin Blind
    BY DEF Blind
  <2>2. Blind' = Blind
    BY <1>1, <1>2, <2>1
  <2>3. updates' = updates
    BY <1>2 DEF Leaves, RegistryIInv, RegistryTypeOK
  <2>4. QED
    BY <2>2, <2>3 DEF Promise!promiseVars, Blind
<1>3. CASE sections[t].update # NoOne
  <2>1. PICK u \in Updates : u = sections[t].update
    BY <1>3 DEF RegistryIInv, RegistryTypeOK, Section
  <2>2. updates[u] = "open"
    BY <1>3, <2>1 DEF RegistryIInv, InHand
  <2>3. updates' = [updates EXCEPT ![u] = "refused"]
    BY <2>1 DEF Leaves, RegistryIInv, RegistryTypeOK
  <2>4. Promise!Refuse(u)
    BY <1>1, <2>1, <2>2, <2>3 DEF Promise!Refuse, Blind
  <2>5. QED
    BY <2>4 DEF Promise!Next
<1>4. QED
  BY <1>2, <1>3

\* A step that settles no update and blinds none is a stutter.
LEMMA Unseen ==
  ASSUME UNCHANGED <<mission_file, updates>>,
         \A t \in Threads : sections'[t].update = sections[t].update
                            /\ sections'[t].blind = sections[t].blind
  PROVE  UNCHANGED Promise!promiseVars
<1>1. Blind' = Blind
  BY DEF Blind
<1>2. QED
  BY <1>1 DEF Promise!promiseVars, Blind

LEMMA BeginsInPromise ==
  ASSUME RegistryIInv, NEW t \in Threads,
         get_mission(t) \/ \E u, m \in Updates : update_mission_status(t, u, m)
  PROVE  [Promise!Next]_(Promise!promiseVars)
<1> USE DEF RegistryIInv, RegistryTypeOK
<1>1. ASSUME NEW u, NEW m, Enters(t, Waiting(u, m)) PROVE Blind' = Blind
  <2>1. /\ ~sections'[t].blind /\ ~sections[t].blind
        /\ \A s \in Threads : s # t => sections'[s] = sections[s]
    BY <1>1 DEF Enters, Waiting, At, Staged
  <2>2. \A v \in Updates :
          (\E s \in Threads : sections'[s].update = v /\ sections'[s].blind) <=>
          (\E s \in Threads : sections[s].update = v /\ sections[s].blind)
    BY <2>1
  <2>3. QED
    BY <2>2 DEF Blind
<1>2. CASE get_mission(t)
  <2>1. UNCHANGED <<mission_file, updates>> /\ Blind' = Blind
    BY <1>1, <1>2 DEF get_mission, Enters
  <2>2. QED
    BY <2>1 DEF Promise!promiseVars, Blind
<1>3. ASSUME NEW u \in Updates, NEW m \in Updates, update_mission_status(t, u, m)
      PROVE  [Promise!Next]_(Promise!promiseVars)
  <2>1. Blind' = Blind
    BY <1>1, <1>3 DEF update_mission_status
  <2>2. Promise!Begin(u)
    BY <1>3, <2>1 DEF update_mission_status, Enters, Promise!Begin, Blind
  <2>3. QED
    BY <2>2 DEF Promise!Next
<1>4. QED
  BY <1>2, <1>3

LEMMA StepsInPromise ==
  ASSUME RegistryIInv, NEW t \in Threads, TakesLock(t) \/ locked(t) \/ Changes(t)
  PROVE  [Promise!Next]_(Promise!promiseVars)
<1> USE DEF RegistryIInv, RegistryTypeOK, Section
<1>1. UNCHANGED <<mission_file, updates>>
  BY DEF TakesLock, locked, Changes
<1>2. \A s \in Threads : sections'[s].update = sections[s].update
                         /\ sections'[s].blind = sections[s].blind
  <2>1. CASE TakesLock(t)
    BY <2>1 DEF TakesLock
  <2>2. CASE locked(t)
    BY <2>2 DEF locked
  <2>3. CASE Changes(t)
    BY <2>3 DEF Changes
  <2>4. QED
    BY <2>1, <2>2, <2>3
<1>3. QED
  BY <1>1, <1>2, Unseen

\* The second load finds the file, or blinds the update.
LEMMA PutInPromise ==
  ASSUME RegistryIInv, NEW t \in Threads, save_mission(t)
  PROVE  [Promise!Next]_(Promise!promiseVars)
<1> USE DEF RegistryIInv, RegistryTypeOK
<1>1. PICK u \in Updates : u = sections[t].update /\ updates[u] = "open"
  BY DEF save_mission, At, Staged, InHand, Section
<1>2. PICK b \in BOOLEAN :
         /\ sections'[t].blind = b /\ sections'[t].update = u
         /\ \A s \in Threads : s # t => sections'[s] = sections[s]
  BY <1>1 DEF save_mission, Section
<1>3. ~sections[t].blind
  BY DEF save_mission, At, Staged
<1>4. \A s \in Threads : s # t => sections[s].update # u
  BY <1>1 DEF InHand
<1>5. Blind' = IF b THEN Blind \cup {u} ELSE Blind
  <2>1. \A v \in Updates : v # u =>
          ((\E s \in Threads : sections'[s].update = v /\ sections'[s].blind) <=>
           (\E s \in Threads : sections[s].update = v /\ sections[s].blind))
    BY <1>1, <1>2
  <2>2. (\E s \in Threads : sections'[s].update = u /\ sections'[s].blind) <=> b
    BY <1>2, <1>4
  <2>3. u \notin Blind
    BY <1>1, <1>3, <1>4 DEF Blind
  <2>4. QED
    BY <2>1, <2>2, <2>3 DEF Blind
<1>6. UNCHANGED <<mission_file, updates>>
  BY DEF save_mission
<1>7. CASE b
  <2>1. Promise!Misread(u)
    BY <1>1, <1>5, <1>6, <1>7 DEF Promise!Misread, Blind
  <2>2. QED
    BY <2>1 DEF Promise!Next
<1>8. CASE ~b
  BY <1>5, <1>6, <1>8 DEF Promise!promiseVars, Blind
<1>9. QED
  BY <1>7, <1>8

\* Replacing the file applies the update to the mission in hand.
LEMMA ReplaceInPromise ==
  ASSUME RegistryIInv, NEW t \in Threads, _save_state(t)
  PROVE  [Promise!Next]_(Promise!promiseVars)
<1> USE DEF RegistryIInv, RegistryTypeOK
<1>1. /\ sections[t].step = "saving" /\ Leaves(t, "saved")
      /\ mission_file' = missions[process[t]]
  BY DEF _save_state, At
<1>2. PICK u \in Updates, m \in Updates :
         u = sections[t].update /\ m = sections[t].mission /\ updates[u] = "open"
  BY <1>1 DEF Staged, InHand, Section
<1>3. Blind' = Blind \ {u}
  BY <1>1, <1>2, BlindEnds
<1>4. u \in Blind <=> sections[t].blind
  BY <1>2 DEF Blind, InHand
<1>5. Written(t) /\ Changed(t)
  BY <1>1 DEF Progressing
<1>6. mission_file' = [n \in Updates |-> IF n = m THEN mission_file[m] \cup {u}
                                         ELSE IF u \in Blind THEN {} ELSE mission_file[n]]
  BY <1>1, <1>2, <1>4, <1>5 DEF Written, Changed
<1>7. m = u \/ mission_file[m] # {}
  BY <1>2, <1>5 DEF Changed
<1>8. updates' = [updates EXCEPT ![u] = "saved"]
  BY <1>1, <1>2 DEF Leaves
<1>9. Promise!Apply(u, m)
  BY <1>2, <1>3, <1>6, <1>7, <1>8 DEF Promise!Apply, Blind
<1>10. QED
  BY <1>9 DEF Promise!Next

LEMMA StopIsNext ==
  ASSUME NEW taken \in SUBSET Updates, Promise!Stop(taken)
  PROVE  Promise!Next
<1>1. \E lost \in SUBSET Updates : Promise!Stop(lost)
  OBVIOUS
<1>2. QED
  BY <1>1, Zenon DEF Promise!Next

LEMMA RestartInPromise ==
  ASSUME RegistryIInv, NEW p \in Processes, Restart(p)
  PROVE  [Promise!Next]_(Promise!promiseVars)
<1> USE DEF RegistryIInv, RegistryTypeOK
<1> DEFINE mine == {t \in Threads : process[t] = p}
           lost == {u \in Updates : \E t \in mine : sections[t].update = u}
<1>1. /\ sections' = [t \in Threads |-> IF t \in mine THEN Outside ELSE sections[t]]
      /\ updates' = [u \in Updates |-> IF \E t \in mine : sections[t].update = u
                                       THEN "refused" ELSE updates[u]]
      /\ UNCHANGED mission_file
  BY DEF Restart
<1>2. \A u \in lost : updates[u] = "open"
  BY DEF InHand
<1>3. updates' = [u \in Updates |-> IF u \in lost THEN "refused" ELSE updates[u]]
  BY <1>1
<1>4. Blind' = Blind \ lost
  <2>1. ASSUME NEW u \in Updates, NEW s \in Threads, sections'[s].update = u, sections'[s].blind
        PROVE  sections[s].update = u /\ sections[s].blind /\ u \notin lost
    <3>1. s \notin mine /\ sections'[s] = sections[s]
      BY <1>1, <2>1 DEF Outside
    <3>2. QED
      BY <2>1, <3>1 DEF InHand
  <2>2. ASSUME NEW u \in Updates, NEW s \in Threads, sections[s].update = u, sections[s].blind,
               u \notin lost
        PROVE  sections'[s].update = u /\ sections'[s].blind
    BY <1>1, <2>2
  <2>3. QED
    BY <2>1, <2>2 DEF Blind
<1>5. PICK taken \in SUBSET Updates : taken = lost
  OBVIOUS
<1>6. Promise!Stop(taken)
  BY <1>1, <1>2, <1>3, <1>4, <1>5 DEF Promise!Stop, Blind
<1> HIDE DEF mine, lost
<1>7. QED
  BY <1>6, StopIsNext

\* The sections keep RegistryPromise: on Windows for every number of processes, and
\* elsewhere for one, with every thread, failure and restart.
THEOREM RegistryKeepsPromise == RegistrySpec => KeepsRegistryPromise
<1>1. RegistryInit => Promise!Init
  BY DEF RegistryInit, Promise!Init, Nothing, Outside
<1>2. RegistryIInv /\ [RegistryNext]_registryVars => [Promise!Next]_(Promise!promiseVars)
  <2> SUFFICES ASSUME RegistryIInv, [RegistryNext]_registryVars
               PROVE  [Promise!Next]_(Promise!promiseVars)
    OBVIOUS
  <2>1. ASSUME NEW t \in Threads, Runs(t) PROVE [Promise!Next]_(Promise!promiseVars)
    <3>1. LockTimeout(t) \/ Returns(t) \/ Raises(t) \/ SaveFails(t) =>
             [Promise!Next]_(Promise!promiseVars)
      BY EndIsRefused DEF LockTimeout, Returns, Raises, SaveFails, At
    <3>2. QED
      BY <2>1, <3>1, StepsInPromise, PutInPromise, ReplaceInPromise DEF Runs
  <2>2. CASE UNCHANGED registryVars
    BY <2>2 DEF registryVars, Promise!promiseVars
  <2>3. QED
    BY <2>1, <2>2, BeginsInPromise, RestartInPromise DEF RegistryNext
<1>3. QED
  BY <1>1, <1>2, RegistryInductive, PTL DEF RegistrySpec, KeepsRegistryPromise, Promise!Spec

------------------------------------------------------------------------------
(* The host.                                                               *)

\* The server's disk and processes are its three parts side by side: what is proved of
\* one part's specification holds in every behaviour of the host.
THEOREM HostImplementsParts == HostSpec => RegistrySpec /\ LocalSpec /\ PreviewsSpec
<1>1. HostInit => RegistryInit /\ LocalInit /\ PreviewsInit
  BY DEF HostInit
<1>2. [HostNext]_hostVars =>
         [RegistryNext]_registryVars /\ [LocalNext]_localVars /\ [PreviewsNext]_previewVars
  BY DEF HostNext, hostVars
<1>3. QED
  BY <1>1, <1>2, PTL DEF HostSpec, RegistrySpec, LocalSpec, PreviewsSpec
==============================================================================
