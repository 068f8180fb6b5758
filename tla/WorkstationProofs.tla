------------------------- MODULE WorkstationProofs -------------------------
(***************************************************************************)
(* The operator's machine, for every set of hosts and commands and any     *)
(* number of them, whatever fails or is interrupted: the inventory shows   *)
(* what was written last, runs are recorded in full, hosts keep out of     *)
(* each other's way, and what commands report is so.                       *)
(***************************************************************************)
EXTENDS Workstation, VersioningProofs, SequenceTheorems, FiniteSetTheorems

(* No version is younger than the last second that was seen.               *)
RowsAreOld == \A t \in Tables : \A r \in rows[t] : r.from <= second

InventoryInv ==
  /\ second \in Nat
  /\ rows = [t \in Tables |-> rows[t]]
  /\ \A t \in Tables : WellVersioned(rows[t])
  /\ RowsAreOld

(* What a command can do to the tables: nothing, look at the clock, or put *)
(* in one row.                                                             *)
Untouched == UNCHANGED <<rows, second>>
Looked == rows' = rows /\ second' \in Now
Written == \E w : \E now \in Now : Upsert(w, now)

(* The clock does not go back.                                             *)
LEMMA NowIsLater ==
  ASSUME InventoryInv, NEW now \in Now
  PROVE  now \in Nat /\ now # Forever /\ second <= now
  BY DEF Now, InventoryInv, Forever

(* A command does nothing else to the tables.                              *)
LEMMA InventorySteps ==
  ASSUME [Next]_vars
  PROVE  Untouched \/ Looked \/ Written
  <1> USE DEF Untouched
  <1>1. CASE \E c \in situation.choices : Begin(c)
    BY <1>1 DEF Begin, inventory
  <1>2. CASE Progress
    <2>1. CASE Pipeline
      BY <2>1 DEF Pipeline, inventory
    <2>2. CASE Remote
      BY <2>2 DEF Remote, inventory
    <2>3. CASE LocalStep
      BY <2>3 DEF LocalStep
    <2>4. CASE LocalStepsDone
      BY <2>4 DEF LocalStepsDone, inventory
    <2>5. CASE Record
      <3>1. \/ \E now \in Now : Upsert(Head(command.todo), now)
            \/ \E now \in Now : UpsertRaises(Head(command.todo), now)
            \/ UNCHANGED inventory
        BY <2>5 DEF Record
      <3> QED
        BY <3>1 DEF Written, Looked, UpsertRaises, inventory
    <2>6. CASE Recorded
      BY <2>6 DEF Recorded, inventory
    <2>7. CASE RemoveLocal
      BY <2>7 DEF RemoveLocal, inventory
    <2>8. CASE RemoveInventory
      <3>1. \/ \E r \in ServersFor(Job.host), now \in Now :
                 \/ Upsert(Decommission(Job.host, r), now)
                 \/ UpsertRaises(Decommission(Job.host, r), now)
            \/ UNCHANGED inventory
        BY <2>8 DEF RemoveInventory
      <3> QED
        BY <3>1 DEF Written, Looked, UpsertRaises, inventory
    <2>9. CASE Removed
      BY <2>9 DEF Removed, inventory
    <2>10. CASE TunnelUp
      BY <2>10 DEF TunnelUp, inventory
    <2>11. CASE TunnelDown
      BY <2>11 DEF TunnelDown, inventory
    <2> QED
      BY <1>2, <2>1, <2>2, <2>3, <2>4, <2>5, <2>6, <2>7, <2>8, <2>9, <2>10, <2>11
         DEF Progress
  <1>3. CASE Crash
    BY <1>3 DEF Crash, inventory
  <1>4. CASE CrashInInit
    BY <1>4 DEF CrashInInit
  <1>5. CASE UNCHANGED vars
    BY <1>5 DEF vars, inventory
  <1> QED
    BY <1>1, <1>2, <1>3, <1>4, <1>5 DEF Next

(* One table after a row was put in, and the others.                       *)
LEMMA WrittenTables ==
  ASSUME InventoryInv, NEW w, NEW now \in Now, Upsert(w, now)
  PROVE  /\ second' = now
         /\ rows' = [t \in Tables |-> rows'[t]]
         /\ \A t \in Tables :
              rows'[t] = IF t = w.table THEN Upserted(rows[t], w.key, w.val, now)
                         ELSE rows[t]
  BY DEF Upsert, InventoryInv

(* Every step keeps the tables well versioned.                             *)
LEMMA InventoryInvStep ==
  ASSUME InventoryInv, [Next]_vars
  PROVE  InventoryInv'
  <1>1. CASE Untouched
    BY <1>1 DEF Untouched, InventoryInv, RowsAreOld
  <1>2. CASE Looked
    <2>1. second' \in Nat /\ second <= second' /\ rows' = rows
      BY <1>2, NowIsLater DEF Looked
    <2>2. RowsAreOld'
      BY <2>1 DEF RowsAreOld, InventoryInv, WellVersioned, IsVersion
    <2> QED
      BY <2>1, <2>2 DEF InventoryInv
  <1>3. CASE Written
    <2>1. PICK w : \E now \in Now : Upsert(w, now)
      BY <1>3 DEF Written
    <2>2. PICK now \in Now : Upsert(w, now)
      BY <2>1
    <2>3. now \in Nat /\ now # Forever /\ second <= now
      BY NowIsLater
    <2>4. /\ second' = now
          /\ rows' = [t \in Tables |-> rows'[t]]
          /\ \A t \in Tables :
               rows'[t] = IF t = w.table THEN Upserted(rows[t], w.key, w.val, now)
                          ELSE rows[t]
      BY <2>2, WrittenTables
    <2>5. ASSUME NEW t \in Tables
          PROVE  WellVersioned(rows'[t])
      BY <2>3, <2>4, UpsertKeepsVersions DEF InventoryInv
    <2>6. ASSUME NEW t \in Tables, NEW s \in rows'[t]
          PROVE  s.from <= second'
      <3>1. \A r \in rows[t] : r.from \in Nat /\ r.from <= second
        BY DEF InventoryInv, RowsAreOld, WellVersioned, IsVersion
      <3>2. s.from = now \/ \E r \in rows[t] : r.from = s.from
        <4>1. CASE t = w.table
          <5>1. s \in Upserted(rows[t], w.key, w.val, now) /\ WellVersioned(rows[t])
            BY <2>4, <4>1 DEF InventoryInv
          <5> QED
            BY <2>3, <5>1, UpsertKeepsHistory
        <4>2. CASE t # w.table
          BY <2>4, <4>2
        <4> QED
          BY <4>1, <4>2
      <3> QED
        BY <2>3, <2>4, <3>1, <3>2 DEF InventoryInv
    <2> QED
      BY <2>3, <2>4, <2>5, <2>6 DEF InventoryInv, RowsAreOld
  <1> QED
    BY <1>1, <1>2, <1>3, InventorySteps

(* The tables are well versioned: every key has at most one open version,  *)
(* and none is younger than the clock.                                     *)
THEOREM InventoryIsVersioned == Spec => []InventoryInv
  <1>1. Init => InventoryInv
    BY DEF Init, InventoryInv, RowsAreOld, WellVersioned, OneOpen
  <1>2. InventoryInv /\ [Next]_vars => InventoryInv'
    BY InventoryInvStep
  <1> QED
    BY <1>1, <1>2, PTL DEF Spec

-----------------------------------------------------------------------------
(* The inventory as its readers see it.                                    *)

Shows == [t \in Tables |-> Entries(rows[t])]

(* A row that is put in replaces what the views show of its key.           *)
LEMMA StepPuts ==
  ASSUME InventoryInv, [Next]_vars
  PROVE  [Current!Next]_Shows
  <1>1. CASE Untouched \/ Looked
    BY <1>1 DEF Untouched, Looked, Shows
  <1>2. CASE Written
    <2>1. PICK w : \E now \in Now : Upsert(w, now)
      BY <1>2 DEF Written
    <2>2. PICK now \in Now : Upsert(w, now)
      BY <2>1
    <2>3. now \in Nat /\ now # Forever
      BY NowIsLater
    <2>4. \A t \in Tables :
            rows'[t] = IF t = w.table THEN Upserted(rows[t], w.key, w.val, now)
                       ELSE rows[t]
      BY <2>2, WrittenTables
    <2>5. CASE w.table \notin Tables
      BY <2>4, <2>5 DEF Shows
    <2>6. CASE w.table \in Tables
      <3> DEFINE t == w.table
                 e == <<w.key, w.val>>
      <3>1. Entries(rows'[t]) = {f \in Entries(rows[t]) : f[1] # w.key} \cup {e}
        BY <2>3, <2>4, <2>6, UpsertPuts DEF InventoryInv
      <3>2. e \in Shows'[t]
        BY <2>6, <3>1 DEF Shows
      <3>3. Shows' = [Shows EXCEPT ![t] = {f \in @ : f[1] # e[1]} \cup {e}]
        BY <2>4, <2>6, <3>1 DEF Shows
      <3> QED
        BY <2>6, <3>2, <3>3 DEF Current!Next, Shows
    <2> QED
      BY <2>5, <2>6
  <1> QED
    BY <1>1, <1>2, InventorySteps

(* The versioned tables, with an interruption or a failure anywhere, keep  *)
(* the promise of CurrentTable: what the views show of a key is what was   *)
(* written last, and nothing else changes.                                 *)
THEOREM InventoryRefines == Spec => InventoryIsCurrent
  <1>1. Init => Current!Init
    BY DEF Init, Current!Init, Entries, View
  <1>2. InventoryInv /\ [Next]_vars => [Current!Next]_Shows
    BY StepPuts
  <1> QED
    BY <1>1, <1>2, InventoryIsVersioned, PTL
       DEF Spec, InventoryIsCurrent, Current!Spec, Shows

-----------------------------------------------------------------------------
(* No version is lost, changed but for its end, or opened again, and a new *)
(* one is the newest of its key.                                           *)
THEOREM HistoryKept == Spec => HistoryIsKept
  <1> DEFINE Keeps ==
        \A t \in Tables :
          /\ \A r \in rows[t] : \E s \in rows'[t] :
               /\ s.key = r.key /\ s.val = r.val /\ s.from = r.from
               /\ r.to # Forever => s.to # Forever
          /\ \A s \in rows'[t] :
               \A r \in rows[t] :
                 r.key = s.key /\ (\A q \in rows[t] : q.key = s.key => q.from # s.from)
                   => r.from < s.from
  <1>1. ASSUME InventoryInv, [Next]_vars
        PROVE  [Keeps]_rows
    <2>1. CASE Untouched \/ Looked
      BY <2>1 DEF Untouched, Looked
    <2>2. CASE Written
      <3>1. PICK w : \E now \in Now : Upsert(w, now)
        BY <2>2 DEF Written
      <3>2. PICK now \in Now : Upsert(w, now)
        BY <3>1
      <3>3. now \in Nat /\ now # Forever /\ second <= now /\ second \in Nat
        BY <1>1, NowIsLater DEF InventoryInv
      <3>4. ~Raises(rows[w.table], w.key, w.val, now)
        BY <3>2 DEF Upsert
      <3>5. \A t \in Tables :
              rows'[t] = IF t = w.table THEN Upserted(rows[t], w.key, w.val, now)
                         ELSE rows[t]
        BY <1>1, <3>2, WrittenTables
      <3>6. ASSUME NEW t \in Tables
            PROVE  /\ \A r \in rows[t] : \E s \in rows'[t] :
                        /\ s.key = r.key /\ s.val = r.val /\ s.from = r.from
                        /\ r.to # Forever => s.to # Forever
                   /\ \A s \in rows'[t] :
                        \/ \E r \in rows[t] : r.key = s.key /\ r.from = s.from
                        \/ t = w.table /\ s.key = w.key /\ s.from = now
        <4>1. CASE t = w.table
          <5>1. WellVersioned(rows[t])
                /\ rows'[t] = Upserted(rows[t], w.key, w.val, now)
            BY <1>1, <3>5, <4>1 DEF InventoryInv
          <5> QED
            BY <3>3, <4>1, <5>1, UpsertKeepsHistory
        <4>2. CASE t # w.table
          BY <3>5, <4>2
        <4> QED
          BY <4>1, <4>2
      <3>7. ASSUME NEW t \in Tables, NEW s \in rows'[t], NEW r \in rows[t],
                   r.key = s.key, \A q \in rows[t] : q.key = s.key => q.from # s.from
            PROVE  r.from < s.from
        <4>1. t = w.table /\ s.key = w.key /\ s.from = now
          BY <3>6, <3>7
        <4>2. r.from \in Nat /\ r.from <= second /\ r.from # now
          BY <1>1, <3>7, <4>1 DEF InventoryInv, RowsAreOld, WellVersioned, IsVersion
        <4> QED
          BY <3>3, <4>1, <4>2
      <3> QED
        BY <3>6, <3>7
    <2> QED
      BY <1>1, <2>1, <2>2, InventorySteps
  <1>2. InventoryInv /\ [Next]_vars => [Keeps]_rows
    BY <1>1
  <1> QED
    BY <1>2, InventoryIsVersioned, PTL DEF Spec, HistoryIsKept

-----------------------------------------------------------------------------
(* Commands: their jobs, and how far they are.                             *)

IsJob(j) == j.host \in Hosts /\ j.parts \in Seq(Range(j.parts))

Pcs == {"idle", "pipeline", "remote", "local", "record", "remove", "up", "down"}
OnServer == {"remote", "local", "record"}
Reports == {"none", "ok", "failed", "warnings", "crashed"}

Fields ==
  {"op", "jobs", "fleet", "continue", "rotate", "pc", "at", "keys", "todo",
   "failed", "opened", "warned", "outcomes", "results", "report"}

HasFields(c) == c = [f \in Fields |-> c[f]]

(* What is left of the steps after an apply, and of a removal.             *)
BootstrapTodos ==
  {<<"ssh", "wireguard", "init">>, <<"wireguard", "init">>, <<"init">>, <<>>}
LocalTodos(kind) == IF kind = "bootstrap" THEN BootstrapTodos ELSE {<<"init">>, <<>>}

RemoveTodos ==
  {<<"tunnel", "wireguard", "ssh", "keys", "inventory">>,
   <<"wireguard", "ssh", "keys", "inventory">>, <<"ssh", "keys", "inventory">>,
   <<"keys", "inventory">>, <<"inventory">>, <<>>}

(* A file has the keys of all its jobs once the first is applied, a fleet  *)
(* those up to the job at hand.                                            *)
KeysInPlace(c) ==
  /\ c.keys \in Seq(Range(c.keys))
  /\ c.pc = "pipeline" => Len(c.keys) = c.at - 1
  /\ c.pc \in OnServer => /\ c.fleet => Len(c.keys) = c.at
                          /\ ~c.fleet => Len(c.keys) = Len(c.jobs)

CommandInv(c) ==
  /\ HasFields(c)
  /\ c.pc \in Pcs /\ c.report \in Reports
  /\ c.jobs \in Seq(Range(c.jobs))
  /\ \A i \in DOMAIN c.jobs : IsJob(c.jobs[i])
  /\ c.pc # "idle" => c.at \in DOMAIN c.jobs
  /\ KeysInPlace(c)
  /\ c.pc = "local" => c.todo \in LocalTodos(c.jobs[c.at].kind)
  /\ c.op = "remove" => c.pc \in {"idle", "remove"}
  /\ c.pc = "remove" => /\ c.op = "remove" /\ c.todo \in RemoveTodos
                        /\ c.results \in Seq(Range(c.results))

ControlInv == situation \in Situations /\ CommandInv(command)

(* A sequence with one element more.                                       *)
LEMMA GrowingSequence ==
  ASSUME NEW s, s \in Seq(Range(s)), NEW e
  PROVE  /\ Append(s, e) \in Seq(Range(Append(s, e)))
         /\ Len(s) \in Nat /\ DOMAIN s = 1..Len(s)
         /\ Len(Append(s, e)) = Len(s) + 1
         /\ DOMAIN Append(s, e) = 1..(Len(s) + 1)
         /\ \A i \in DOMAIN s : Append(s, e)[i] = s[i]
         /\ Append(s, e)[Len(s) + 1] = e
         /\ Range(Append(s, e)) = Range(s) \cup {e}
  <1> DEFINE S == Range(s) \cup {e}
             t == Append(s, e)
  <1>1. s \in Seq(S) /\ e \in S
    BY SeqMonotonic DEF Range
  <1>2. /\ t \in Seq(S) /\ Len(t) = Len(s) + 1
        /\ Len(s) \in Nat /\ DOMAIN s = 1..Len(s)
        /\ \A i \in 1..Len(s) : t[i] = s[i]
        /\ t[Len(s) + 1] = e
    BY <1>1
  <1>3. DOMAIN t = 1..(Len(s) + 1)
    BY <1>2
  <1>4. Range(t) = S
    BY <1>2, <1>3 DEF Range
  <1> QED
    BY <1>2, <1>3, <1>4

(* A sequence is one of its own elements.                                  *)
LEMMA OwnSequence ==
  ASSUME NEW S, NEW s \in Seq(S)
  PROVE  s \in Seq(Range(s))
  <1>1. s \in [1..Len(s) -> S] /\ Len(s) \in Nat
    BY LenProperties
  <1>2. s \in [1..Len(s) -> Range(s)]
    BY <1>1 DEF Range
  <1> QED
    BY <1>1, <1>2, SeqDef

(* A sequence with one element less.                                       *)
LEMMA ShrinkingSequence ==
  ASSUME NEW s, s \in Seq(Range(s)), s # <<>>
  PROVE  /\ Tail(s) \in Seq(Range(Tail(s)))
         /\ Len(s) \in Nat /\ Len(s) >= 1 /\ Head(s) = s[1]
         /\ Len(Tail(s)) = Len(s) - 1
         /\ Tail(s) # <<>> => Len(Tail(s)) # 0
         /\ \A i \in 1..(Len(s) - 1) : Tail(s)[i] = s[i + 1]
  <1>1. /\ Tail(s) \in Seq(Range(s)) /\ Len(Tail(s)) = Len(s) - 1
        /\ Len(s) \in Nat /\ Len(s) >= 1 /\ Head(s) = s[1]
        /\ \A i \in 1..(Len(s) - 1) : Tail(s)[i] = s[i + 1]
    OBVIOUS
  <1>2. Tail(s) \in Seq(Range(Tail(s)))
    BY <1>1, OwnSequence
  <1>3. Tail(s) # <<>> => Len(Tail(s)) # 0
    BY <1>1, EmptySeq
  <1> QED
    BY <1>1, <1>2, <1>3

(* The sequence without elements.                                          *)
LEMMA EmptySequence == <<>> \in Seq(Range(<<>>)) /\ Len(<<>>) = 0
  OBVIOUS

(* A command that has ended.                                               *)
LEMMA EndedCommand ==
  ASSUME NEW c, HasFields(c), NEW report
  PROVE  LET e == Ended(c, report)
         IN  /\ HasFields(e)
             /\ e.pc = "idle" /\ e.report = report /\ e.keys = <<>> /\ e.todo = <<>>
             /\ e.op = c.op /\ e.jobs = c.jobs /\ e.fleet = c.fleet /\ e.at = c.at
  BY DEF Ended, HasFields, Fields

(* An ended command is in order.                                           *)
LEMMA EndedIsInOrder ==
  ASSUME NEW c, HasFields(c), c.jobs \in Seq(Range(c.jobs)),
         \A i \in DOMAIN c.jobs : IsJob(c.jobs[i]), NEW report \in Reports
  PROVE  CommandInv(Ended(c, report))
  <1> DEFINE e == Ended(c, report)
  <1>1. /\ HasFields(e)
        /\ e.pc = "idle" /\ e.report = report /\ e.keys = <<>> /\ e.jobs = c.jobs
    BY EndedCommand
  <1>2. KeysInPlace(e)
    BY <1>1, EmptySequence DEF KeysInPlace, OnServer
  <1> QED
    BY <1>1, <1>2 DEF CommandInv, Pcs

(* After a job the command has ended, or goes on with the next one.        *)
LEMMA NextJob ==
  ASSUME NEW c, HasFields(c), NEW outcome
  PROVE  LET d == AfterJob(c, outcome)
         IN  /\ HasFields(d)
             /\ d.op = c.op /\ d.jobs = c.jobs /\ d.fleet = c.fleet
             /\ \/ /\ \E report \in Reports : d.report = report
                   /\ d.pc = "idle" /\ d.keys = <<>>
                \/ /\ d.keys = c.keys /\ d.report = c.report
                   /\ c.at # Len(c.jobs) /\ d.at = c.at + 1
                   /\ c.fleet => d.pc = "pipeline"
                   /\ ~c.fleet => d.pc = "remote"
  <1> DEFINE d == [c EXCEPT !.outcomes = Append(@, outcome), !.todo = <<>>]
             n == [d EXCEPT !.at = @ + 1, !.pc = IF c.fleet THEN "pipeline" ELSE "remote"]
  <1>1. /\ HasFields(d)
        /\ d.op = c.op /\ d.jobs = c.jobs /\ d.fleet = c.fleet
        /\ d.keys = c.keys /\ d.report = c.report /\ d.at = c.at
    BY DEF HasFields, Fields
  <1>2. \/ \E report \in {"ok", "failed"} : AfterJob(c, outcome) = Ended(d, report)
        \/ c.at # Len(c.jobs) /\ AfterJob(c, outcome) = n
    BY DEF AfterJob
  <1>3. /\ HasFields(n)
        /\ n.op = c.op /\ n.jobs = c.jobs /\ n.fleet = c.fleet
        /\ n.keys = c.keys /\ n.report = c.report /\ n.at = c.at + 1
        /\ c.fleet => n.pc = "pipeline"
        /\ ~c.fleet => n.pc = "remote"
    BY DEF HasFields, Fields
  <1> HIDE DEF d, n
  <1>4. CASE \E report \in {"ok", "failed"} : AfterJob(c, outcome) = Ended(d, report)
    BY <1>1, <1>4, EndedCommand DEF Reports
  <1>5. CASE c.at # Len(c.jobs) /\ AfterJob(c, outcome) = n
    BY <1>3, <1>5
  <1> QED
    BY <1>2, <1>4, <1>5

(* ... and is in order.                                                    *)
LEMMA NextJobIsInOrder ==
  ASSUME NEW c, HasFields(c), c.jobs \in Seq(Range(c.jobs)), c.report \in Reports,
         \A i \in DOMAIN c.jobs : IsJob(c.jobs[i]), c.op # "remove",
         c.at \in DOMAIN c.jobs, c.keys \in Seq(Range(c.keys)),
         c.fleet => Len(c.keys) = c.at,
         ~c.fleet => Len(c.keys) = Len(c.jobs),
         NEW outcome
  PROVE  CommandInv(AfterJob(c, outcome))
  <1> DEFINE d == AfterJob(c, outcome)
  <1>1. /\ HasFields(d)
        /\ d.op = c.op /\ d.jobs = c.jobs /\ d.fleet = c.fleet
        /\ \/ d.report \in Reports /\ d.pc = "idle" /\ d.keys = <<>>
           \/ /\ d.keys = c.keys /\ d.report = c.report
              /\ c.at # Len(c.jobs) /\ d.at = c.at + 1
              /\ c.fleet => d.pc = "pipeline"
              /\ ~c.fleet => d.pc = "remote"
    BY NextJob
  <1>2. CASE d.report \in Reports /\ d.pc = "idle" /\ d.keys = <<>>
    BY <1>1, <1>2, EmptySequence DEF CommandInv, KeysInPlace, Pcs, OnServer
  <1>3. CASE /\ d.keys = c.keys /\ d.report = c.report
             /\ c.at # Len(c.jobs) /\ d.at = c.at + 1
             /\ c.fleet => d.pc = "pipeline"
             /\ ~c.fleet => d.pc = "remote"
    <2>1. d.at \in DOMAIN d.jobs
      BY <1>1, <1>3
    <2>2. KeysInPlace(d)
      BY <1>1, <1>3 DEF KeysInPlace, OnServer
    <2> QED
      BY <1>1, <1>3, <2>1, <2>2 DEF CommandInv, Pcs
  <1> QED
    BY <1>1, <1>2, <1>3

(* A command that does not change but for its steps is in order if they    *)
(* are.                                                                    *)
LEMMA SameCommand ==
  ASSUME NEW c, CommandInv(c), c.pc # "idle", NEW d, HasFields(d),
         d.op = c.op, d.jobs = c.jobs, d.fleet = c.fleet, d.at = c.at,
         d.keys = c.keys, d.report = c.report,
         c.pc \in OnServer \cup {"remove"},
         c.pc \in OnServer => d.pc \in OnServer,
         c.pc = "remove" => /\ d.pc = "remove" /\ d.todo \in RemoveTodos
                            /\ d.results \in Seq(Range(d.results)),
         d.pc = "local" => d.todo \in LocalTodos(d.jobs[d.at].kind)
  PROVE  CommandInv(d)
  BY DEF CommandInv, KeysInPlace, OnServer, Pcs

(* A command in order is still so when nothing but it changes.             *)
LEMMA StillInOrder ==
  ASSUME situation' = situation, CommandInv(command'), situation \in Situations
  PROVE  ControlInv'
  BY DEF ControlInv, CommandInv, IsJob, Hosts

(* The host of the job at hand is one of the situation's.                  *)
LEMMA JobAtHand ==
  ASSUME ControlInv, command.pc # "idle"
  PROVE  /\ command.at \in DOMAIN command.jobs
         /\ command.at \in 1..Len(command.jobs) /\ Len(command.jobs) \in Nat
         /\ Job.host \in Hosts /\ Job.parts \in Seq(Range(Job.parts))
  BY DEF ControlInv, CommandInv, IsJob, Job

(* What is left of the steps of an apply or a removal.                     *)
LEMMA LeftTodos ==
  /\ \A todo \in BootstrapTodos : todo # <<>> => Tail(todo) \in BootstrapTodos
  /\ \A todo \in RemoveTodos : todo # <<>> => Tail(todo) \in RemoveTodos
  /\ \A kind : \A todo \in LocalTodos(kind) : todo # <<>> => Tail(todo) \in LocalTodos(kind)
  <1>1. Tail(<<"ssh", "wireguard", "init">>) = <<"wireguard", "init">>
    OBVIOUS
  <1>2. Tail(<<"wireguard", "init">>) = <<"init">>
    OBVIOUS
  <1>3. Tail(<<"init">>) = <<>>
    OBVIOUS
  <1>4. \A todo \in BootstrapTodos : todo # <<>> => Tail(todo) \in BootstrapTodos
    BY <1>1, <1>2, <1>3 DEF BootstrapTodos
  <1>5. /\ Tail(<<"tunnel", "wireguard", "ssh", "keys", "inventory">>)
             = <<"wireguard", "ssh", "keys", "inventory">>
        /\ Tail(<<"wireguard", "ssh", "keys", "inventory">>)
             = <<"ssh", "keys", "inventory">>
    OBVIOUS
  <1>6. /\ Tail(<<"ssh", "keys", "inventory">>) = <<"keys", "inventory">>
        /\ Tail(<<"keys", "inventory">>) = <<"inventory">>
        /\ Tail(<<"inventory">>) = <<>>
    OBVIOUS
  <1>7. \A todo \in RemoveTodos : todo # <<>> => Tail(todo) \in RemoveTodos
    BY <1>5, <1>6 DEF RemoveTodos
  <1>8. ASSUME NEW kind, NEW todo \in LocalTodos(kind), todo # <<>>
        PROVE  Tail(todo) \in LocalTodos(kind)
    BY <1>3, <1>4, <1>8 DEF LocalTodos
  <1> QED
    BY <1>4, <1>7, <1>8

(* A command begins in order.                                              *)
LEMMA BegunInOrder ==
  ASSUME situation \in Situations, NEW c \in situation.choices, Begin(c)
  PROVE  CommandInv(command')
  <1> DEFINE jobs == Selected(c)
             d == command'
  <1>1. /\ c.op \in {"apply", "remove", "up", "down"}
        /\ jobs \in Seq(Range(jobs)) /\ \A i \in DOMAIN jobs : IsJob(jobs[i])
    BY ChoicesAssumption DEF IsJob, Hosts
  <1>2. /\ HasFields(d)
        /\ d.op = c.op /\ d.jobs = jobs /\ d.at = 1 /\ d.keys = <<>>
        /\ d.todo = Steps(c.op) /\ d.results = <<>>
        /\ d.pc = IF jobs = <<>> THEN "idle" ELSE FirstPc(c.op)
        /\ d.report = IF jobs # <<>> THEN "none"
                      ELSE IF c.selector = {} THEN "ok" ELSE "failed"
    BY DEF Begin, NoCommand, HasFields, Fields
  <1>3. d.pc \in {"idle", "pipeline", "remove", "up", "down"}
        /\ (d.pc # "idle" => jobs # <<>> /\ d.pc = FirstPc(c.op))
        /\ (d.pc = "remove" <=> c.op = "remove" /\ jobs # <<>>)
    BY <1>1, <1>2 DEF FirstPc
  <1>4. d.report \in Reports
    BY <1>2 DEF Reports
  <1>5. jobs # <<>> => 1 \in DOMAIN jobs
    BY <1>1
  <1>6. KeysInPlace(d)
    BY <1>2, <1>3, EmptySequence DEF KeysInPlace, OnServer
  <1>7. d.pc = "remove" => d.todo \in RemoveTodos /\ d.results \in Seq(Range(d.results))
    BY <1>2, <1>3, EmptySequence DEF Steps, RemoveTodos
  <1> QED
    BY <1>1, <1>2, <1>3, <1>4, <1>5, <1>6, <1>7 DEF CommandInv, Pcs

(* The job at hand has its keys.                                           *)
LEMMA KeysAdded ==
  ASSUME ControlInv, command.pc = "pipeline",
         NEW c, c = [command EXCEPT !.keys = Append(@, KeyOf(Job))]
  PROVE  /\ HasFields(c) /\ c.jobs \in Seq(Range(c.jobs))
         /\ \A i \in DOMAIN c.jobs : IsJob(c.jobs[i])
         /\ c.op = command.op /\ c.op # "remove" /\ c.report \in Reports
         /\ c.jobs = command.jobs /\ c.fleet = command.fleet /\ c.at = command.at
         /\ c.pc = "pipeline" /\ c.at \in DOMAIN c.jobs
         /\ c.keys = Append(command.keys, KeyOf(Job))
         /\ c.keys \in Seq(Range(c.keys)) /\ Len(c.keys) = c.at
         /\ c.keys[c.at] = KeyOf(Job)
         /\ \A i \in 1..(c.at - 1) : c.keys[i] = command.keys[i]
  <1> DEFINE k == KeyOf(Job)
  <1>1. /\ HasFields(c)
        /\ c.op = command.op /\ c.report = command.report
        /\ c.jobs = command.jobs /\ c.fleet = command.fleet /\ c.at = command.at
        /\ c.pc = "pipeline" /\ c.keys = Append(command.keys, k)
    BY DEF ControlInv, CommandInv, HasFields, Fields
  <1>2. /\ command.keys \in Seq(Range(command.keys))
        /\ Len(command.keys) = command.at - 1
        /\ command.at \in DOMAIN command.jobs
        /\ command.jobs \in Seq(Range(command.jobs))
        /\ \A i \in DOMAIN command.jobs : IsJob(command.jobs[i])
        /\ command.op # "remove" /\ command.report \in Reports
    BY DEF ControlInv, CommandInv, KeysInPlace
  <1>3. /\ c.keys \in Seq(Range(c.keys))
        /\ Len(c.keys) = command.at /\ c.keys[command.at] = k
        /\ \A i \in 1..(command.at - 1) : c.keys[i] = command.keys[i]
    <2>1. command.at \in Nat
      BY <1>2
    <2> HIDE DEF k
    <2> QED
      BY <1>1, <1>2, <2>1, GrowingSequence
  <1> QED
    BY <1>1, <1>2, <1>3

(* After the pipeline of a job, the next one is at hand, or the first is   *)
(* applied.                                                                *)
LEMMA PipelineGoesOn ==
  ASSUME NEW c, HasFields(c)
  PROVE  LET d == AfterPipeline(c)
         IN  /\ HasFields(d)
             /\ d.op = c.op /\ d.jobs = c.jobs /\ d.fleet = c.fleet
             /\ \/ d = Ended(c, "failed")
                \/ /\ d.keys = c.keys /\ d.report = c.report
                   /\ \/ c.fleet /\ d.pc = "remote" /\ d.at = c.at
                      \/ /\ ~c.fleet /\ c.at < Len(c.jobs)
                         /\ d.pc = c.pc /\ d.at = c.at + 1
                      \/ /\ ~c.fleet /\ ~(c.at < Len(c.jobs))
                         /\ d.pc = "remote" /\ d.at = 1
  <1> DEFINE a == [c EXCEPT !.pc = "remote"]
             b == [c EXCEPT !.at = @ + 1]
             e == [c EXCEPT !.at = 1, !.pc = "remote"]
  <1>1. \/ c.fleet /\ AfterPipeline(c) = a
        \/ ~c.fleet /\ c.at < Len(c.jobs) /\ AfterPipeline(c) = b
        \/ ~c.fleet /\ ~(c.at < Len(c.jobs)) /\ AfterPipeline(c) = e
        \/ AfterPipeline(c) = Ended(c, "failed")
    BY DEF AfterPipeline
  <1>2. /\ HasFields(a) /\ a.op = c.op /\ a.jobs = c.jobs /\ a.fleet = c.fleet
        /\ a.keys = c.keys /\ a.report = c.report /\ a.pc = "remote" /\ a.at = c.at
    BY DEF HasFields, Fields
  <1>3. /\ HasFields(b) /\ b.op = c.op /\ b.jobs = c.jobs /\ b.fleet = c.fleet
        /\ b.keys = c.keys /\ b.report = c.report /\ b.pc = c.pc /\ b.at = c.at + 1
    BY DEF HasFields, Fields
  <1>4. /\ HasFields(e) /\ e.op = c.op /\ e.jobs = c.jobs /\ e.fleet = c.fleet
        /\ e.keys = c.keys /\ e.report = c.report /\ e.pc = "remote" /\ e.at = 1
    BY DEF HasFields, Fields
  <1>5. LET d == Ended(c, "failed")
        IN  HasFields(d) /\ d.op = c.op /\ d.jobs = c.jobs /\ d.fleet = c.fleet
    BY EndedCommand
  <1> HIDE DEF a, b, e
  <1> QED
    BY <1>1, <1>2, <1>3, <1>4, <1>5

(* What a step of the pipeline makes of the command.                       *)
LEMMA PipelineInOrder ==
  ASSUME ControlInv, Pipeline
  PROVE  CommandInv(command')
  <1> DEFINE c == [command EXCEPT !.keys = Append(@, KeyOf(Job))]
  <1>1. /\ command.pc = "pipeline"
        /\ \/ command' = AfterPipeline(c)
           \/ command' = AfterJob(c, "failed") /\ c.fleet
           \/ command' = Ended(c, "failed")
    BY DEF Pipeline
  <1>2. /\ HasFields(c) /\ c.jobs \in Seq(Range(c.jobs))
        /\ \A i \in DOMAIN c.jobs : IsJob(c.jobs[i])
        /\ c.op # "remove" /\ c.report \in Reports
        /\ c.pc = "pipeline" /\ c.at \in DOMAIN c.jobs
        /\ c.keys \in Seq(Range(c.keys)) /\ Len(c.keys) = c.at
    BY <1>1, KeysAdded
  <1> HIDE DEF c
  <1>3. CommandInv(Ended(c, "failed"))
    BY <1>2, EndedIsInOrder DEF Reports
  <1>4. CASE command' = AfterPipeline(c) /\ command' # Ended(c, "failed")
    <2> DEFINE d == command'
    <2>1. /\ HasFields(d)
          /\ d.op = c.op /\ d.jobs = c.jobs /\ d.fleet = c.fleet
          /\ d.keys = c.keys /\ d.report = c.report
          /\ \/ c.fleet /\ d.pc = "remote" /\ d.at = c.at
             \/ ~c.fleet /\ c.at < Len(c.jobs) /\ d.pc = "pipeline" /\ d.at = c.at + 1
             \/ /\ ~c.fleet /\ ~(c.at < Len(c.jobs))
                /\ d.pc = "remote" /\ d.at = 1
      BY <1>2, <1>4, PipelineGoesOn
    <2>2. DOMAIN c.jobs = 1..Len(c.jobs) /\ Len(c.jobs) \in Nat
      BY <1>2
    <2>3. d.at \in DOMAIN d.jobs
      BY <1>2, <2>1, <2>2
    <2>4. KeysInPlace(d)
      BY <1>2, <2>1, <2>2 DEF KeysInPlace, OnServer
    <2> QED
      BY <1>2, <2>1, <2>3, <2>4 DEF CommandInv, Pcs
  <1>5. CASE command' = AfterJob(c, "failed") /\ c.fleet
    BY <1>2, <1>5, NextJobIsInOrder
  <1> QED
    BY <1>1, <1>3, <1>4, <1>5

(* The command that the apply of a job starts with.                        *)
LEMMA ApplyStarted ==
  ASSUME HasFields(command)
  PROVE  /\ HasFields(StartedApply)
         /\ StartedApply.op = command.op /\ StartedApply.jobs = command.jobs
         /\ StartedApply.fleet = command.fleet /\ StartedApply.at = command.at
         /\ StartedApply.keys = command.keys /\ StartedApply.report = command.report
         /\ StartedApply.pc = "local" /\ StartedApply.todo = LocalSteps(Job)
         /\ StartedApply.failed = FALSE /\ StartedApply.warned = FALSE
  BY DEF StartedApply, HasFields, Fields

(* A job's end on the server, in its local steps or its records.           *)
LEMMA JobEndsInOrder ==
  ASSUME ControlInv, command.pc \in OnServer, NEW outcome
  PROVE  CommandInv(AfterJob(command, outcome))
  <1>1. /\ HasFields(command) /\ command.jobs \in Seq(Range(command.jobs))
        /\ command.report \in Reports
        /\ \A i \in DOMAIN command.jobs : IsJob(command.jobs[i])
        /\ command.op # "remove" /\ command.at \in DOMAIN command.jobs
        /\ command.keys \in Seq(Range(command.keys))
        /\ command.fleet => Len(command.keys) = command.at
        /\ ~command.fleet => Len(command.keys) = Len(command.jobs)
    BY DEF ControlInv, CommandInv, KeysInPlace, OnServer
  <1> QED
    BY <1>1, NextJobIsInOrder

(* What the apply on the server makes of the command.                      *)
LEMMA RemoteInOrder ==
  ASSUME ControlInv, Remote
  PROVE  CommandInv(command')
  <1> DEFINE f == [StartedApply EXCEPT !.failed = TRUE]
  <1>1. /\ command.pc = "remote"
        /\ \/ command' = StartedApply
           \/ command' = f
           \/ command' = AfterJob(command, "failed")
    BY DEF Remote
  <1>2. HasFields(command) /\ CommandInv(command)
    BY DEF ControlInv, CommandInv
  <1>3. LocalSteps(Job) \in LocalTodos(Job.kind)
    BY DEF LocalSteps, LocalTodos, BootstrapTodos
  <1>4. ASSUME NEW d, HasFields(d),
               d.op = command.op, d.jobs = command.jobs, d.fleet = command.fleet,
               d.at = command.at, d.keys = command.keys, d.report = command.report,
               d.pc = "local", d.todo = LocalSteps(Job)
        PROVE  CommandInv(d)
    BY <1>1, <1>2, <1>3, <1>4, SameCommand DEF OnServer, Job
  <1>5. CASE command' = StartedApply
    BY <1>2, <1>4, <1>5, ApplyStarted
  <1>6. CASE command' = f
    <2>1. /\ HasFields(f)
          /\ f.op = StartedApply.op /\ f.jobs = StartedApply.jobs
          /\ f.fleet = StartedApply.fleet /\ f.at = StartedApply.at
          /\ f.keys = StartedApply.keys /\ f.report = StartedApply.report
          /\ f.pc = StartedApply.pc /\ f.todo = StartedApply.todo
      BY <1>2, ApplyStarted DEF HasFields, Fields
    <2> QED
      BY <1>2, <1>4, <1>6, <2>1, ApplyStarted
  <1>7. CASE command' = AfterJob(command, "failed")
    BY <1>1, <1>7, JobEndsInOrder DEF OnServer
  <1> QED
    BY <1>1, <1>5, <1>6, <1>7

(* What a local step makes of the command.                                 *)
LEMMA LocalStepTakes ==
  ASSUME ControlInv, LocalStep
  PROVE  LET d == command'
         IN  /\ HasFields(d)
             /\ d.op = command.op /\ d.jobs = command.jobs /\ d.fleet = command.fleet
             /\ d.at = command.at /\ d.keys = command.keys /\ d.report = command.report
             /\ d.pc = "local" /\ d.todo = Tail(command.todo)
             /\ d.failed = command.failed
             /\ \/ /\ d.warned = command.warned
                   /\ wg' = IF Head(command.todo) = "wireguard" THEN Saved(Job.host, Key)
                            ELSE wg
                   /\ confD' = IF Head(command.todo) = "ssh" THEN confD \cup {Job.host}
                               ELSE confD
                \/ d.warned = TRUE /\ wg' = wg /\ confD' = confD
  <1> DEFINE c == [command EXCEPT !.todo = Tail(@)]
             a == [c EXCEPT !.opened = (Head(command.todo) = "init")]
             b == [c EXCEPT !.warned = TRUE]
             e == [c EXCEPT !.opened = TRUE]
             f == [e EXCEPT !.warned = TRUE]
  <1>1. HasFields(command) /\ command.pc = "local"
    BY DEF ControlInv, CommandInv, LocalStep
  <1>2. /\ HasFields(c) /\ c.op = command.op /\ c.jobs = command.jobs
        /\ c.fleet = command.fleet /\ c.at = command.at /\ c.keys = command.keys
        /\ c.report = command.report /\ c.pc = command.pc /\ c.todo = Tail(command.todo)
        /\ c.failed = command.failed /\ c.warned = command.warned
    BY <1>1 DEF HasFields, Fields
  <1>3. \/ /\ command' = a
           /\ wg' = IF Head(command.todo) = "wireguard" THEN Saved(Job.host, Key)
                    ELSE wg
           /\ confD' = IF Head(command.todo) = "ssh" THEN confD \cup {Job.host}
                       ELSE confD
        \/ (command' = b \/ command' = f) /\ wg' = wg /\ confD' = confD
    BY DEF LocalStep, Warned
  <1> HIDE DEF c
  <1>4. /\ HasFields(a) /\ a.op = c.op /\ a.jobs = c.jobs
        /\ a.fleet = c.fleet /\ a.at = c.at /\ a.keys = c.keys
        /\ a.report = c.report /\ a.pc = c.pc /\ a.todo = c.todo
        /\ a.failed = c.failed /\ a.warned = c.warned
    BY <1>2 DEF HasFields, Fields
  <1>5. /\ HasFields(b) /\ b.op = c.op /\ b.jobs = c.jobs
        /\ b.fleet = c.fleet /\ b.at = c.at /\ b.keys = c.keys
        /\ b.report = c.report /\ b.pc = c.pc /\ b.todo = c.todo
        /\ b.failed = c.failed /\ b.warned = TRUE
    BY <1>2 DEF HasFields, Fields
  <1>6. /\ HasFields(e) /\ e.op = c.op /\ e.jobs = c.jobs
        /\ e.fleet = c.fleet /\ e.at = c.at /\ e.keys = c.keys
        /\ e.report = c.report /\ e.pc = c.pc /\ e.todo = c.todo
        /\ e.failed = c.failed
    BY <1>2 DEF HasFields, Fields
  <1> HIDE DEF e
  <1>7. /\ HasFields(f) /\ f.op = c.op /\ f.jobs = c.jobs
        /\ f.fleet = c.fleet /\ f.at = c.at /\ f.keys = c.keys
        /\ f.report = c.report /\ f.pc = c.pc /\ f.todo = c.todo
        /\ f.failed = c.failed /\ f.warned = TRUE
    BY <1>6 DEF HasFields, Fields
  <1> HIDE DEF a, b, f
  <1> QED
    BY <1>1, <1>2, <1>3, <1>4, <1>5, <1>7

(* What recording a row makes of the command.                              *)
LEMMA RecordTakes ==
  ASSUME ControlInv, Record
  PROVE  LET d == command'
         IN  /\ HasFields(d)
             /\ d.op = command.op /\ d.jobs = command.jobs /\ d.fleet = command.fleet
             /\ d.at = command.at /\ d.keys = command.keys /\ d.report = command.report
             /\ d.pc = "record" /\ d.failed = command.failed
             /\ \/ /\ \E now \in Now : Upsert(Head(command.todo), now)
                   /\ d.todo = Tail(command.todo) /\ d.warned = command.warned
                \/ rows' = rows /\ d.todo = <<>> /\ d.warned = TRUE
  <1> DEFINE a == [command EXCEPT !.todo = Tail(@)]
             e == [command EXCEPT !.todo = <<>>]
             b == [e EXCEPT !.warned = TRUE]
  <1>1. HasFields(command) /\ command.pc = "record"
    BY DEF ControlInv, CommandInv, Record
  <1>2. \/ command' = a /\ \E now \in Now : Upsert(Head(command.todo), now)
        \/ command' = b /\ rows' = rows
    BY DEF Record, Warned, UpsertRaises, inventory
  <1>3. /\ HasFields(a) /\ a.op = command.op /\ a.jobs = command.jobs
        /\ a.fleet = command.fleet /\ a.at = command.at /\ a.keys = command.keys
        /\ a.report = command.report /\ a.pc = command.pc
        /\ a.failed = command.failed
        /\ a.todo = Tail(command.todo) /\ a.warned = command.warned
    BY <1>1 DEF HasFields, Fields
  <1>4. /\ HasFields(e) /\ e.op = command.op /\ e.jobs = command.jobs
        /\ e.fleet = command.fleet /\ e.at = command.at /\ e.keys = command.keys
        /\ e.report = command.report /\ e.pc = command.pc
        /\ e.failed = command.failed /\ e.todo = <<>>
    BY <1>1 DEF HasFields, Fields
  <1> HIDE DEF e
  <1>5. /\ HasFields(b) /\ b.op = e.op /\ b.jobs = e.jobs
        /\ b.fleet = e.fleet /\ b.at = e.at /\ b.keys = e.keys
        /\ b.report = e.report /\ b.pc = e.pc
        /\ b.failed = e.failed /\ b.todo = e.todo /\ b.warned = TRUE
    BY <1>4 DEF HasFields, Fields
  <1> HIDE DEF a, b
  <1> QED
    BY <1>1, <1>2, <1>3, <1>4, <1>5

(* What the local steps' end makes of the command.                         *)
LEMMA LocalStepsEnd ==
  ASSUME ControlInv, LocalStepsDone
  PROVE  \/ command.failed /\ command' = AfterJob(command, "failed")
         \/ LET d == command'
            IN  /\ ~command.failed /\ HasFields(d)
                /\ d.op = command.op /\ d.jobs = command.jobs
                /\ d.fleet = command.fleet /\ d.at = command.at
                /\ d.keys = command.keys /\ d.report = command.report
                /\ d.failed = command.failed /\ d.warned = command.warned
                /\ d.pc = "record" /\ d.todo = Writes(Job, RunId)
  <1> DEFINE d == [command EXCEPT !.pc = "record", !.todo = Writes(Job, RunId)]
  <1>1. HasFields(command)
    BY DEF ControlInv, CommandInv
  <1>2. /\ HasFields(d) /\ d.op = command.op /\ d.jobs = command.jobs
        /\ d.fleet = command.fleet /\ d.at = command.at
        /\ d.keys = command.keys /\ d.report = command.report
        /\ d.failed = command.failed /\ d.warned = command.warned
        /\ d.pc = "record" /\ d.todo = Writes(Job, RunId)
    BY <1>1 DEF HasFields, Fields
  <1> HIDE DEF d
  <1>3. \/ command.failed /\ command' = AfterJob(command, "failed")
        \/ ~command.failed /\ command' = d
    BY DEF LocalStepsDone, d
  <1> QED
    BY <1>2, <1>3

(* What a step of a removal makes of the command.                          *)
LEMMA StepEndTakes ==
  ASSUME HasFields(command), NEW result, StepEnded(result)
  PROVE  LET d == command'
         IN  /\ HasFields(d)
             /\ d.op = command.op /\ d.jobs = command.jobs /\ d.fleet = command.fleet
             /\ d.at = command.at /\ d.keys = command.keys /\ d.report = command.report
             /\ d.pc = command.pc /\ d.todo = Tail(command.todo)
             /\ d.results = Append(command.results, result)
  BY DEF StepEnded, HasFields, Fields

(* A step of a removal ends in order.                                      *)
LEMMA RemovalInOrder ==
  ASSUME ControlInv, command.pc = "remove", command.todo # <<>>,
         NEW result, StepEnded(result)
  PROVE  CommandInv(command')
  <1> DEFINE d == command'
  <1>1. /\ HasFields(command) /\ CommandInv(command)
        /\ command.todo \in RemoveTodos
        /\ command.results \in Seq(Range(command.results))
    BY DEF ControlInv, CommandInv
  <1>2. /\ HasFields(d)
        /\ d.op = command.op /\ d.jobs = command.jobs /\ d.fleet = command.fleet
        /\ d.at = command.at /\ d.keys = command.keys /\ d.report = command.report
        /\ d.pc = "remove" /\ d.todo = Tail(command.todo)
        /\ d.results = Append(command.results, result)
    BY <1>1, StepEndTakes
  <1>3. d.todo \in RemoveTodos /\ d.results \in Seq(Range(d.results))
    BY <1>1, <1>2, LeftTodos, GrowingSequence
  <1> QED
    BY <1>1, <1>2, <1>3, SameCommand DEF OnServer

(* A command ends, however it does, in order.                              *)
LEMMA EndInOrder ==
  ASSUME ControlInv, NEW report \in Reports
  PROVE  CommandInv(Ended(command, report))
  <1>1. /\ HasFields(command) /\ command.jobs \in Seq(Range(command.jobs))
        /\ \A i \in DOMAIN command.jobs : IsJob(command.jobs[i])
    BY DEF ControlInv, CommandInv
  <1> QED
    BY <1>1, EndedIsInOrder

(* Every step keeps the command in order.                                  *)
LEMMA ControlInvStep ==
  ASSUME ControlInv, [Next]_vars
  PROVE  ControlInv'
  <1>1. situation' = situation /\ situation \in Situations
    <2>1. situation' = situation
      BY DEF Next, Progress, Begin, Pipeline, Remote, LocalStep, LocalStepsDone,
             Record, Recorded, RemoveLocal, RemoveInventory, Removed, TunnelUp,
             TunnelDown, Crash, CrashInInit, vars
    <2> QED
      BY <2>1 DEF ControlInv
  <1>2. CommandInv(command) /\ HasFields(command)
    BY DEF ControlInv, CommandInv
  <1>3. CommandInv(command')
    <2>1. CASE \E c \in situation.choices : Begin(c)
      BY <1>1, <2>1, BegunInOrder
    <2>2. CASE Pipeline
      BY <2>2, PipelineInOrder
    <2>3. CASE Remote
      BY <2>3, RemoteInOrder
    <2>4. CASE LocalStep
      <3> DEFINE d == command'
      <3>1. command.pc = "local" /\ command.todo # <<>>
        BY <2>4 DEF LocalStep
      <3>2. /\ HasFields(d)
            /\ d.op = command.op /\ d.jobs = command.jobs /\ d.fleet = command.fleet
            /\ d.at = command.at /\ d.keys = command.keys /\ d.report = command.report
            /\ d.pc = "local" /\ d.todo = Tail(command.todo)
        BY <2>4, LocalStepTakes
      <3>3. d.todo \in LocalTodos(d.jobs[d.at].kind)
        BY <1>2, <3>1, <3>2, LeftTodos DEF CommandInv
      <3> QED
        BY <1>2, <3>1, <3>2, <3>3, SameCommand DEF OnServer
    <2>5. CASE LocalStepsDone
      <3> DEFINE d == command'
      <3>1. command.pc = "local"
        BY <2>5 DEF LocalStepsDone
      <3>2. CASE command' = AfterJob(command, "failed")
        BY <3>1, <3>2, JobEndsInOrder DEF OnServer
      <3>3. CASE /\ HasFields(d)
                 /\ d.op = command.op /\ d.jobs = command.jobs
                 /\ d.fleet = command.fleet /\ d.at = command.at
                 /\ d.keys = command.keys /\ d.report = command.report
                 /\ d.pc = "record"
        BY <1>2, <3>1, <3>3, SameCommand DEF OnServer
      <3> QED
        BY <2>5, <3>2, <3>3, LocalStepsEnd
    <2>6. CASE Record
      <3> DEFINE d == command'
      <3>1. command.pc = "record"
        BY <2>6 DEF Record
      <3>2. /\ HasFields(d)
            /\ d.op = command.op /\ d.jobs = command.jobs /\ d.fleet = command.fleet
            /\ d.at = command.at /\ d.keys = command.keys /\ d.report = command.report
            /\ d.pc = "record"
        BY <2>6, RecordTakes
      <3> QED
        BY <1>2, <3>1, <3>2, SameCommand DEF OnServer
    <2>7. CASE Recorded
      BY <2>7, JobEndsInOrder DEF Recorded, OnServer
    <2>8. CASE RemoveLocal
      <3>1. /\ command.pc = "remove" /\ command.todo # <<>>
            /\ StepEnded("error") \/ StepEnded("skipped") \/ StepEnded("ok")
        BY <2>8 DEF RemoveLocal
      <3> QED
        BY <3>1, RemovalInOrder
    <2>9. CASE RemoveInventory
      <3>1. /\ command.pc = "remove" /\ command.todo # <<>>
            /\ StepEnded("error") \/ StepEnded("skipped") \/ StepEnded("ok")
        BY <2>9 DEF RemoveInventory
      <3> QED
        BY <3>1, RemovalInOrder
    <2>10. CASE Removed
      BY <2>10, EndInOrder DEF Removed, Reports
    <2>11. CASE TunnelUp
      BY <2>11, EndInOrder DEF TunnelUp, Reports
    <2>12. CASE TunnelDown
      BY <2>12, EndInOrder DEF TunnelDown, Reports
    <2>13. CASE Crash
      BY <2>13, EndInOrder DEF Crash, Reports
    <2>14. CASE CrashInInit
      BY <2>14, EndInOrder DEF CrashInInit, Reports
    <2>15. CASE UNCHANGED vars
      BY <1>2, <2>15 DEF vars
    <2> QED
      BY <2>1, <2>2, <2>3, <2>4, <2>5, <2>6, <2>7, <2>8, <2>9, <2>10, <2>11,
         <2>12, <2>13, <2>14, <2>15 DEF Next, Progress
  <1> QED
    BY <1>1, <1>3, StillInOrder

(* A command has its jobs, and the keys that it generated, in place.       *)
LEMMA CommandsInOrder == Spec => []ControlInv
  <1>1. Init => ControlInv
    <2>1. HasFields(NoCommand)
      BY DEF HasFields, Fields, NoCommand
    <2>2. ASSUME Init
          PROVE  ControlInv
      <3>1. /\ command = NoCommand /\ situation \in Situations
            /\ command.pc = "idle" /\ command.report = "none" /\ command.op = "none"
            /\ command.jobs = <<>> /\ command.keys = <<>>
        BY <2>2 DEF Init, NoCommand
      <3> QED
        BY <2>1, <3>1, EmptySequence
           DEF ControlInv, CommandInv, KeysInPlace, Pcs, Reports, OnServer
    <2> QED
      BY <2>2
  <1>2. ControlInv /\ [Next]_vars => ControlInv'
    BY ControlInvStep
  <1> QED
    BY <1>1, <1>2, PTL DEF Spec

-----------------------------------------------------------------------------
(* The tables have their triggers before they have rows, and no row ends   *)
(* later than the clock.                                                   *)

SchemaInv ==
  /\ schema \in [Tables -> {"none", "view", "ready"}]
  /\ \A t \in Tables : schema[t] # "ready" => rows[t] = {}

EndsInv == \A t \in Tables : \A r \in rows[t] : r.to \in Nat /\ r.to <= second

(* The tables that there are.                                              *)
LEMMA TheTables ==
  /\ Tables = {"server", "service", "run"}
  /\ \A i \in DOMAIN TableOrder : TableOrder[i] \in Tables
  BY DEF Tables, TableOrder, Range

(* However far initialize gets, a table that has its triggers keeps them.  *)
LEMMA StoppedSchema ==
  ASSUME SchemaInv, InitializeStops
  PROVE  /\ schema' \in [Tables -> {"none", "view", "ready"}]
         /\ \A t \in Tables : schema[t] = "ready" => schema'[t] = "ready"
  <1> DEFINE this(i) == TableOrder[i]
             before(i) == {TableOrder[j] : j \in 1..(i - 1)}
  <1>1. PICK i \in DOMAIN TableOrder, half \in BOOLEAN :
          /\ half => schema[this(i)] = "none"
          /\ schema' = [t \in Tables |->
                          IF t = this(i) /\ half THEN "view"
                          ELSE IF t \in before(i) THEN Initialized[t] ELSE schema[t]]
    BY Zenon DEF InitializeStops
  <1> HIDE DEF this, before
  <1>2. \A t \in Tables :
          /\ Initialized[t] \in {"none", "view", "ready"}
          /\ schema[t] \in {"none", "view", "ready"}
          /\ schema[t] = "ready" => Initialized[t] = "ready"
    BY DEF SchemaInv, Initialized
  <1>3. \A t \in Tables : schema[t] = "ready" => ~(t = this(i) /\ half)
    BY <1>1
  <1> QED
    BY <1>1, <1>2, <1>3

(* A table is made, and gets its triggers; one that has them keeps them.   *)
LEMMA SchemaSteps ==
  ASSUME SchemaInv, [Next]_vars
  PROVE  /\ schema' \in [Tables -> {"none", "view", "ready"}]
         /\ \A t \in Tables : schema[t] = "ready" => schema'[t] = "ready"
         /\ rows' # rows => schema' = schema
  <1> DEFINE Kinds == {"none", "view", "ready"}
  <1>1. /\ Initialized \in [Tables -> Kinds]
        /\ \A t \in Tables : schema[t] = "ready" => Initialized[t] = "ready"
    BY DEF SchemaInv, Initialized
  <1>2. CASE UNCHANGED schema
    BY <1>2 DEF SchemaInv
  <1>3. CASE LocalStep /\ ~UNCHANGED schema
    <2>1. rows' = rows /\ (schema' = Initialized \/ InitializeStops)
      BY <1>3 DEF LocalStep
    <2> QED
      BY <1>1, <2>1, StoppedSchema
  <1>4. CASE CrashInInit
    BY <1>4, StoppedSchema DEF CrashInInit
  <1>5. UNCHANGED schema \/ (LocalStep /\ ~UNCHANGED schema) \/ CrashInInit
    <2>1. CASE \E c \in situation.choices : Begin(c)
      BY <2>1 DEF Begin, inventory
    <2>2. CASE Record \/ RemoveInventory
      BY <2>2 DEF Record, RemoveInventory, inventory, Upsert, UpsertRaises
    <2>3. CASE Pipeline \/ Remote \/ LocalStepsDone \/ Recorded \/ Removed
      BY <2>3 DEF Pipeline, Remote, LocalStepsDone, Recorded, Removed, inventory
    <2>4. CASE RemoveLocal \/ TunnelUp \/ TunnelDown \/ Crash \/ UNCHANGED vars
      BY <2>4 DEF RemoveLocal, TunnelUp, TunnelDown, Crash, vars, inventory
    <2> QED
      BY <2>1, <2>2, <2>3, <2>4 DEF Next, Progress
  <1> QED
    BY <1>2, <1>3, <1>4, <1>5

(* Every step keeps it so.                                                 *)
LEMMA TablesInvStep ==
  ASSUME InventoryInv, SchemaInv, EndsInv, [Next]_vars
  PROVE  SchemaInv' /\ EndsInv'
  <1>1. /\ schema' \in [Tables -> {"none", "view", "ready"}]
        /\ \A t \in Tables : schema[t] = "ready" => schema'[t] = "ready"
        /\ rows' # rows => schema' = schema
    BY SchemaSteps
  <1>2. CASE Untouched
    <2>1. rows' = rows /\ second' = second
      BY <1>2 DEF Untouched
    <2>2. \A t \in Tables : schema'[t] # "ready" => rows'[t] = {}
      BY <1>1, <2>1 DEF SchemaInv
    <2> QED
      BY <1>1, <2>1, <2>2 DEF SchemaInv, EndsInv
  <1>3. CASE Looked
    <2>1. second' \in Nat /\ second <= second' /\ second \in Nat /\ rows' = rows
      BY <1>3, NowIsLater DEF Looked, InventoryInv
    <2>2. \A t \in Tables : schema'[t] # "ready" => rows'[t] = {}
      BY <1>1, <2>1 DEF SchemaInv
    <2>3. EndsInv'
      BY <2>1 DEF EndsInv
    <2> QED
      BY <1>1, <2>2, <2>3 DEF SchemaInv
  <1>4. CASE Written
    <2>1. PICK w : \E now \in Now : Upsert(w, now)
      BY <1>4 DEF Written
    <2>2. PICK now \in Now : Upsert(w, now)
      BY <2>1
    <2>3. now \in Nat /\ now # Forever /\ second <= now /\ second \in Nat
      BY NowIsLater DEF InventoryInv
    <2>4. /\ second' = now /\ schema' = schema /\ schema[w.table] = "ready"
          /\ \A t \in Tables :
               rows'[t] = IF t = w.table THEN Upserted(rows[t], w.key, w.val, now)
                          ELSE rows[t]
      BY <2>2, WrittenTables DEF Upsert, Writable
    <2>5. \A t \in Tables : schema'[t] # "ready" => rows'[t] = {}
      BY <2>4 DEF SchemaInv
    <2>6. ASSUME NEW t \in Tables, NEW s \in rows'[t]
          PROVE  s.to \in Nat /\ s.to <= now
      <3>1. \A r \in rows[t] : r.to \in Nat /\ r.to <= now
        BY <2>3 DEF EndsInv
      <3>2. s \in rows[t] \/ s.to \in {now, Forever}
        <4>1. CASE t = w.table
          <5>1. /\ s \in Upserted(rows[t], w.key, w.val, now)
                /\ WellVersioned(rows[t])
            BY <2>4, <4>1 DEF InventoryInv
          <5> QED
            BY <2>3, <5>1, UpsertOrigin
        <4>2. CASE t # w.table
          BY <2>4, <4>2
        <4> QED
          BY <4>1, <4>2
      <3> QED
        BY <2>3, <3>1, <3>2 DEF Forever
    <2>7. EndsInv'
      BY <2>4, <2>6 DEF EndsInv
    <2> QED
      BY <1>1, <2>5, <2>7 DEF SchemaInv
  <1> QED
    BY <1>2, <1>3, <1>4, InventorySteps

-----------------------------------------------------------------------------
(* The operator's files: directories of the WireGuard store are as they    *)
(* were written, and everything there is belongs to a host.                *)

IsDir(d) ==
  /\ d = [f \in {"exists", "key", "conf"} |-> d[f]]
  /\ d.exists = TRUE \/ d = NoDir

StoreInv == wg = [d \in Dirs |-> wg[d]] /\ \A d \in Dirs : IsDir(wg[d])

FilesInv ==
  /\ StoreInv
  /\ keyPairs \subseteq Hosts /\ confD \subseteq Hosts
  /\ settled \subseteq Hosts /\ gone \subseteq Hosts

CountersInv ==
  /\ commands \in Nat /\ commands <= situation.commands
  /\ faults \in Nat /\ faults <= situation.faults

(* A host's directories; without a provider they are one.                  *)
LEMMA HostDirs ==
  ASSUME situation \in Situations, NEW h \in Hosts
  PROVE  /\ h \in Dirs /\ Flat(h) \in Dirs
         /\ h.provider = "" <=> Flat(h) = h
         /\ Flat(h).name = h.name /\ Flat(h).provider = ""
  <1> DEFINE p == h.provider
             n == h.name
  <1>1. h = [provider |-> p, name |-> n]
    BY HostsAssumption DEF Hosts
  <1>2. Flat(h) = [provider |-> "", name |-> n]
    BY DEF Flat
  <1>3. h \in Dirs /\ Flat(h) \in Dirs
    BY DEF Dirs
  <1>4. p = "" => Flat(h) = h
    <2> HIDE DEF p, n
    <2> QED
      BY <1>1, <1>2
  <1>5. Flat(h).provider = "" /\ Flat(h).name = h.name
    BY DEF Flat
  <1>6. Flat(h) = h => h.provider = ""
    BY <1>5
  <1> QED
    BY <1>3, <1>4, <1>5, <1>6

(* Keys are saved at once in the flat directory, and only if it has none.  *)
LEMMA PersistedDirs ==
  ASSUME situation \in Situations, StoreInv, NEW h \in Hosts, NEW key
  PROVE  LET w == Persisted(h, key)
         IN  /\ w = [d \in Dirs |-> w[d]]
             /\ \A d \in Dirs : d # Flat(h) => w[d] = wg[d]
             /\ w[Flat(h)] = [exists |-> TRUE, key |-> WriteOnce(wg[Flat(h)].key, key),
                              conf |-> wg[Flat(h)].conf]
  <1> DEFINE f == Flat(h)
             w == Persisted(h, key)
             p == PersistKeys(StoreOf(h), key)
             new == [exists |-> TRUE, key |-> WriteOnce(wg[f].key, key),
                     conf |-> wg[f].conf]
  <1>1. /\ h \in Dirs /\ f \in Dirs
        /\ h.provider = "" <=> f = h
    BY HostDirs
  <1>2. wg[f] = [g \in {"exists", "key", "conf"} |-> wg[f][g]]
    BY <1>1 DEF StoreInv, IsDir
  <1>3. p.flat = new /\ p.provided = wg[h]
    <2> DEFINE store == StoreOf(h)
               old == wg[f]
    <2>1. store = [flat |-> old, provided |-> wg[h]]
      BY DEF StoreOf
    <2> HIDE DEF store, old
    <2>2. LET q == PersistKeys(store, key)
          IN  /\ q.provided = wg[h]
              /\ q.flat = [exists |-> TRUE, key |-> WriteOnce(old.key, key),
                           conf |-> old.conf]
      BY <1>2, <2>1 DEF PersistKeys, old
    <2> QED
      BY <2>2 DEF store, old
  <1>4. CASE f = h
    <2>1. w = [wg EXCEPT ![h] = new]
      BY <1>1, <1>3, <1>4 DEF Persisted
    <2> QED
      BY <1>1, <1>4, <2>1 DEF StoreInv
  <1>5. CASE f # h
    <2>1. w = Put(h, p)
      BY <1>1, <1>5 DEF Persisted
    <2>2. w = [wg EXCEPT ![h] = wg[h], ![f] = new]
      BY <1>1, <1>3, <1>5, <2>1 DEF Put
    <2> QED
      BY <1>1, <1>5, <2>2 DEF StoreInv
  <1> QED
    BY <1>4, <1>5

(* After an apply a host's own directory has the client's configuration.   *)
LEMMA SavedDirs ==
  ASSUME situation \in Situations, StoreInv, NEW h \in Hosts, NEW key
  PROVE  LET w == Saved(h, key)
         IN  /\ w = [d \in Dirs |-> w[d]]
             /\ \A d \in Dirs : d # h => w[d] = wg[d]
             /\ w[h] = [exists |-> TRUE, key |-> WriteOnce(wg[h].key, key),
                        conf |-> key]
  <1> DEFINE f == Flat(h)
             w == Saved(h, key)
             p == SaveState(StoreOf(h), TRUE, key)
             new == [exists |-> TRUE, key |-> WriteOnce(wg[h].key, key), conf |-> key]
  <1>1. /\ h \in Dirs /\ f \in Dirs
        /\ h.provider = "" <=> f = h
    BY HostDirs
  <1>2. p.flat = wg[f] /\ p.provided = new
    BY DEF SaveState, StoreOf, DirName
  <1>3. w = Put(h, p)
    BY DEF Saved
  <1>4. CASE f = h
    <2>1. w = [wg EXCEPT ![h] = new, ![f] = new]
      BY <1>1, <1>2, <1>3, <1>4 DEF Put
    <2> QED
      BY <1>1, <1>4, <2>1 DEF StoreInv
  <1>5. CASE f # h
    <2>1. w = [wg EXCEPT ![h] = new, ![f] = wg[f]]
      BY <1>1, <1>2, <1>3, <1>5 DEF Put
    <2> QED
      BY <1>1, <1>5, <2>1 DEF StoreInv
  <1> QED
    BY <1>4, <1>5

(* What a removal does to the store.                                       *)
DirRemoved(h) == wg' = [wg EXCEPT ![h] = NoDir]

(* The store changes in three places: when keys are generated, when an     *)
(* apply has succeeded, and when a host is removed.                        *)
LEMMA StoreSteps ==
  ASSUME ControlInv, [Next]_vars
  PROVE  \/ wg' = wg
         \/ Pipeline /\ Job.kind = "bootstrap" /\ wg' = Persisted(Job.host, KeyOf(Job))
         \/ /\ LocalStep /\ Job.kind = "bootstrap" /\ Head(command.todo) = "wireguard"
            /\ wg' = Saved(Job.host, Key)
         \/ RemoveLocal /\ Head(command.todo) = "wireguard" /\ DirRemoved(Job.host)
  <1>1. CASE Pipeline
    BY <1>1 DEF Pipeline, GeneratesKeys, localState
  <1>2. CASE LocalStep
    <2>1. wg' = wg \/ (Head(command.todo) = "wireguard" /\ wg' = Saved(Job.host, Key))
      BY <1>2 DEF LocalStep
    <2>2. command.todo \in LocalTodos(Job.kind) /\ command.todo # <<>>
      BY <1>2 DEF LocalStep, ControlInv, CommandInv, Job
    <2>3. Head(command.todo) = "wireguard" => Job.kind = "bootstrap"
      BY <2>2 DEF LocalTodos
    <2> QED
      BY <1>2, <2>1, <2>3
  <1>3. CASE RemoveLocal
    <2>1. \/ TearDown(Job.host)
          \/ RemoveDir(Job.host, Head(command.todo))
          \/ UNCHANGED localState
      BY <1>3 DEF RemoveLocal
    <2> QED
      BY <1>3, <2>1 DEF TearDown, RemoveDir, localState, DirRemoved
  <1>4. CASE \E c \in situation.choices : Begin(c)
    BY <1>4 DEF Begin, localState
  <1>5. CASE Remote \/ LocalStepsDone \/ Record \/ Recorded
    BY <1>5 DEF Remote, LocalStepsDone, Record, Recorded, localState
  <1>6. CASE RemoveInventory \/ Removed \/ TunnelUp
    BY <1>6 DEF RemoveInventory, Removed, TunnelUp, localState
  <1>7. CASE TunnelDown
    BY <1>7 DEF TunnelDown, TearDown, localState
  <1>8. CASE Crash \/ CrashInInit \/ UNCHANGED vars
    BY <1>8 DEF Crash, CrashInInit, vars, localState
  <1> QED
    BY <1>1, <1>2, <1>3, <1>4, <1>5, <1>6, <1>7, <1>8 DEF Next, Progress

(* The situation does not change.                                          *)
LEMMA SituationStays ==
  ASSUME [Next]_vars
  PROVE  situation' = situation /\ Hosts' = Hosts /\ Dirs' = Dirs
  <1>1. situation' = situation
    BY DEF Next, Progress, Begin, Pipeline, Remote, LocalStep, LocalStepsDone,
           Record, Recorded, RemoveLocal, RemoveInventory, Removed, TunnelUp,
           TunnelDown, Crash, CrashInInit, vars
  <1> QED
    BY <1>1 DEF Hosts, Dirs

(* Every step leaves the store made of directories.                        *)
LEMMA StoreInvStep ==
  ASSUME ControlInv, StoreInv, [Next]_vars
  PROVE  StoreInv'
  <1>1. Dirs' = Dirs /\ situation \in Situations
    BY SituationStays DEF ControlInv
  <1>2. ASSUME NEW key, NEW key2
        PROVE  IsDir([exists |-> TRUE, key |-> key, conf |-> key2])
    BY DEF IsDir
  <1>3. IsDir(NoDir)
    BY DEF IsDir, NoDir
  <1>4. CASE wg' = wg
    BY <1>1, <1>4 DEF StoreInv
  <1>5. CASE Pipeline /\ wg' = Persisted(Job.host, KeyOf(Job))
    <2>1. Job.host \in Hosts
      BY <1>5, JobAtHand DEF Pipeline
    <2>2. /\ wg' = [d \in Dirs |-> wg'[d]]
          /\ \A d \in Dirs : d # Flat(Job.host) => wg'[d] = wg[d]
          /\ wg'[Flat(Job.host)] =
               [exists |-> TRUE, key |-> WriteOnce(wg[Flat(Job.host)].key, KeyOf(Job)),
                conf |-> wg[Flat(Job.host)].conf]
      BY <1>1, <1>5, <2>1, PersistedDirs
    <2> QED
      BY <1>1, <1>2, <2>2 DEF StoreInv
  <1>6. CASE LocalStep /\ wg' = Saved(Job.host, Key)
    <2>1. Job.host \in Hosts
      BY <1>6, JobAtHand DEF LocalStep
    <2>2. /\ wg' = [d \in Dirs |-> wg'[d]]
          /\ \A d \in Dirs : d # Job.host => wg'[d] = wg[d]
          /\ wg'[Job.host] =
               [exists |-> TRUE, key |-> WriteOnce(wg[Job.host].key, Key), conf |-> Key]
      BY <1>1, <1>6, <2>1, SavedDirs
    <2> QED
      BY <1>1, <1>2, <2>2 DEF StoreInv
  <1>7. CASE DirRemoved(Job.host)
    BY <1>1, <1>3, <1>7 DEF StoreInv, DirRemoved
  <1> QED
    BY <1>4, <1>5, <1>6, <1>7, StoreSteps

(* Every step leaves files, histories and counters about hosts there are   *)
(* and within their bounds.                                                *)
LEMMA FilesInvStep ==
  ASSUME ControlInv, FilesInv, CountersInv, [Next]_vars
  PROVE  FilesInv' /\ CountersInv'
  <1>1. situation' = situation /\ Hosts' = Hosts /\ situation \in Situations
    BY SituationStays DEF ControlInv
  <1>2. StoreInv'
    BY StoreInvStep DEF FilesInv
  <1>3. command.pc # "idle" => Job.host \in Hosts
    BY JobAtHand
  <1>4. /\ keyPairs' \subseteq Hosts /\ confD' \subseteq Hosts
        /\ settled' \subseteq Hosts /\ gone' \subseteq Hosts
    <2> USE DEF FilesInv, localState
    <2>1. CASE \E c \in situation.choices : Begin(c)
      BY <2>1 DEF Begin
    <2>2. CASE Pipeline
      BY <1>3, <2>2 DEF Pipeline, GeneratesKeys
    <2>3. CASE Remote \/ LocalStepsDone \/ Record
      BY <2>3 DEF Remote, LocalStepsDone, Record
    <2>4. CASE LocalStep
      BY <1>3, <2>4 DEF LocalStep
    <2>5. CASE Recorded
      BY <1>3, <2>5 DEF Recorded
    <2>6. CASE RemoveLocal
      <3>1. \/ TearDown(Job.host)
            \/ RemoveDir(Job.host, Head(command.todo))
            \/ UNCHANGED localState
        BY <2>6 DEF RemoveLocal
      <3>2. keyPairs' \subseteq keyPairs /\ confD' \subseteq confD
        BY <3>1 DEF TearDown, RemoveDir
      <3> QED
        BY <2>6, <3>2 DEF RemoveLocal
    <2>7. CASE RemoveInventory \/ TunnelUp \/ Crash \/ CrashInInit \/ UNCHANGED vars
      BY <2>7 DEF RemoveInventory, TunnelUp, Crash, CrashInInit, vars
    <2>8. CASE Removed
      BY <1>3, <2>8 DEF Removed
    <2>9. CASE TunnelDown
      BY <2>9 DEF TunnelDown, TearDown
    <2> QED
      BY <2>1, <2>2, <2>3, <2>4, <2>5, <2>6, <2>7, <2>8, <2>9 DEF Next, Progress
  <1>5. /\ commands' = commands
             \/ (commands < situation.commands /\ commands' = commands + 1)
        /\ faults' = faults \/ Fault
    BY DEF Next, Progress, Begin, Pipeline, Remote, LocalStep, LocalStepsDone,
           Record, Recorded, RemoveLocal, RemoveInventory, Removed, TunnelUp,
           TunnelDown, Crash, CrashInInit, vars
  <1>6. situation.commands \in Nat /\ situation.faults \in Nat
    <2>1. situation.commands \in 1..MaxCommands /\ situation.faults \in 0..MaxFaults
      BY <1>1, SituationsAssumption
    <2> QED
      BY <2>1
  <1>7. CountersInv'
    BY <1>1, <1>5, <1>6 DEF CountersInv, Fault
  <1> QED
    BY <1>1, <1>2, <1>4, <1>7 DEF FilesInv

TypeInv ==
  ControlInv /\ InventoryInv /\ SchemaInv /\ EndsInv /\ FilesInv /\ CountersInv

(* All of it at once.                                                      *)
LEMMA TypesStay == Spec => []TypeInv
  <1>1. Init => SchemaInv /\ EndsInv /\ FilesInv /\ CountersInv
    <2> SUFFICES ASSUME Init
                 PROVE  SchemaInv /\ EndsInv /\ FilesInv /\ CountersInv
      OBVIOUS
    <2>1. SchemaInv /\ EndsInv
      BY DEF Init, SchemaInv, EndsInv
    <2>2. StoreInv
      <3>1. IsDir(NoDir)
        BY DEF IsDir, NoDir
      <3> QED
        BY <3>1 DEF Init, StoreInv
    <2>3. FilesInv
      BY <2>2 DEF Init, FilesInv
    <2>4. CountersInv
      <3>1. situation.commands \in 1..MaxCommands /\ situation.faults \in 0..MaxFaults
        BY SituationsAssumption DEF Init
      <3> QED
        BY <3>1 DEF Init, CountersInv
    <2> QED
      BY <2>1, <2>3, <2>4
  <1>2. /\ ControlInv /\ InventoryInv
        /\ SchemaInv /\ EndsInv /\ FilesInv /\ CountersInv /\ [Next]_vars
        => SchemaInv' /\ EndsInv' /\ FilesInv' /\ CountersInv'
    BY TablesInvStep, FilesInvStep
  <1> QED
    BY <1>1, <1>2, CommandsInOrder, InventoryIsVersioned, PTL DEF Spec, TypeInv

(* Commands, tables, files and histories have their types: what is at hand *)
(* is a job with its keys, a table without triggers has no rows, and no    *)
(* row is from the future.                                                 *)
THEOREM WorkstationTypeCorrect == Spec => []WorkstationTypeOK
  <1>1. ASSUME TypeInv
        PROVE  WorkstationTypeOK
    <2>1. \A d \in Dirs : wg[d].exists \/ wg[d] = NoDir
      BY <1>1 DEF TypeInv, FilesInv, StoreInv, IsDir
    <2>2. \A t \in Tables : \A r \in rows[t] : r.from <= second /\ r.to <= second
      BY <1>1 DEF TypeInv, InventoryInv, RowsAreOld, EndsInv
    <2>3. command.pc \in OnServer => command.at \in DOMAIN command.keys
      <3>1. /\ command.keys \in Seq(Range(command.keys))
            /\ command.jobs \in Seq(Range(command.jobs))
        BY <1>1 DEF TypeInv, ControlInv, CommandInv, KeysInPlace
      <3>2. command.pc \in OnServer =>
              /\ command.at \in DOMAIN command.jobs
              /\ command.fleet => Len(command.keys) = command.at
              /\ ~command.fleet => Len(command.keys) = Len(command.jobs)
        BY <1>1 DEF TypeInv, ControlInv, CommandInv, KeysInPlace, OnServer
      <3> QED
        BY <3>1, <3>2
    <2>4. /\ command.report \in Reports
          /\ command.pc # "idle" => command.at \in DOMAIN command.jobs
      BY <1>1 DEF TypeInv, ControlInv, CommandInv
    <2> QED
      BY <1>1, <2>1, <2>2, <2>3, <2>4
         DEF WorkstationTypeOK, TypeInv, SchemaInv, FilesInv, CountersInv,
             Reports, OnServer
  <1>2. TypeInv => WorkstationTypeOK
    BY <1>1
  <1> QED
    BY <1>2, TypesStay, PTL

-----------------------------------------------------------------------------
(* Runs.  What is left to record of the job at hand is the end of what is  *)
(* recorded of it, and the beginning is in the tables; the run comes last. *)

HasIn(tables, w) == \E r \in tables[w.table] : r.key = w.key /\ r.val = w.val

RecordedIn(tables, job, id) ==
  \A i \in DOMAIN Writes(job, id) : HasIn(tables, Writes(job, id)[i])

(* Of the first k rows, the last of each service is the one that shows.    *)
LastShow(tables, writes, k) ==
  \A i \in 1..k :
    /\ writes[i].table = "service"
    /\ \A m \in 1..k :
         m > i /\ writes[m].table = "service" => writes[m].key # writes[i].key
    => <<writes[i].key, writes[i].val>> \in Entries(tables["service"])

Left(tables, writes, todo, k) ==
  /\ k \in 0..Len(writes)
  /\ todo \in Seq(Range(todo)) /\ Len(todo) = Len(writes) - k
  /\ \A i \in 1..(Len(writes) - k) : todo[i] = writes[k + i]
  /\ \A i \in 1..k : HasIn(tables, writes[i])
  /\ LastShow(tables, writes, k)

RecordInv ==
  command.pc = "record" /\ (command.todo # <<>> \/ ~command.warned) =>
    \E k \in Nat : Left(rows, Writes(Job, RunId), command.todo, k)

RunsInv ==
  \A r \in rows["run"] : IsJob(r.val) /\ RecordedIn(rows, r.val, r.key)

(* What is recorded of a job: rows of services or its server, and the run. *)
LEMMA WritesOfJob ==
  ASSUME NEW job, job.parts \in Seq(Range(job.parts)), NEW id
  PROVE  LET W == Writes(job, id)
             n == Len(W)
         IN  /\ W \in Seq(Range(W)) /\ n \in Nat /\ n >= 1 /\ DOMAIN W = 1..n
             /\ W[n] = Write("run", id, job)
             /\ \A i \in 1..(n - 1) :
                  /\ W[i].table \in {"server", "service"}
                  /\ W[i].table = "server" =>
                       W[i].key = job.host /\ W[i].val.status = "bootstrapped"
                  /\ W[i].table = "service" => W[i].key[1] = Flat(job.host)
  <1> DEFINE R == ResultWrites(job)
             Good(w) == /\ w.table \in {"server", "service"}
                        /\ w.table = "server" =>
                             w.key = job.host /\ w.val.status = "bootstrapped"
                        /\ w.table = "service" => w.key[1] = Flat(job.host)
  <1>1. ASSUME NEW name, NEW rev
        PROVE  Good(Row(job, name, rev))
    BY DEF Row, Write
  <1>2. R \in Seq(Range(R)) /\ \A i \in DOMAIN R : Good(R[i])
    <2>1. CASE R = BootstrapWrites(job)
      <3> DEFINE w == Write("server", job.host, ServerRow("bootstrapped", job.host))
      <3>1. R = <<w>> /\ Good(w)
        BY <2>1 DEF BootstrapWrites, Write, ServerRow
      <3> HIDE DEF R, w, Good
      <3>2. DOMAIN R = {1} /\ R[1] = w
        BY <3>1
      <3>3. R \in Seq(Range(R))
        BY <3>1, <3>2 DEF Range
      <3> QED
        BY <3>1, <3>2, <3>3
    <2>2. CASE R = SpecWrites(job)
      <3> DEFINE w == Row(job, "spec", job.rev)
      <3>1. R = <<w>> /\ Good(w)
        BY <1>1, <2>2 DEF SpecWrites
      <3> HIDE DEF R, w, Good
      <3>2. DOMAIN R = {1} /\ R[1] = w
        BY <3>1
      <3>3. R \in Seq(Range(R))
        BY <3>1, <3>2 DEF Range
      <3> QED
        BY <3>1, <3>2, <3>3
    <2>3. CASE R = ServiceWrites(job) \/ R = StackWrites(job)
      <3> DEFINE n == Len(job.parts)
      <3>1. n \in Nat /\ DOMAIN job.parts = 1..n
        OBVIOUS
      <3>2. /\ DOMAIN R = 1..n /\ R = [i \in 1..n |-> R[i]]
            /\ \A i \in 1..n : \E name, rev : R[i] = Row(job, name, rev)
        BY <2>3, <3>1 DEF ServiceWrites, StackWrites
      <3>3. \A i \in DOMAIN R : Good(R[i])
        <4> HIDE DEF R, Good
        <4> QED
          BY <1>1, <3>2
      <3>4. R \in Seq(Range(R))
        <4> HIDE DEF R
        <4>1. R \in [1..n -> Range(R)]
          BY <3>2 DEF Range
        <4> QED
          BY <3>1, <4>1, SeqDef
      <3> QED
        BY <3>3, <3>4
    <2> QED
      BY <2>1, <2>2, <2>3 DEF ResultWrites
  <1>3. Writes(job, id) = Append(R, Write("run", id, job))
    BY DEF Writes
  <1> HIDE DEF R, Good
  <1>4. /\ Writes(job, id) \in Seq(Range(Writes(job, id)))
        /\ Len(R) \in Nat /\ DOMAIN R = 1..Len(R)
        /\ Len(Writes(job, id)) = Len(R) + 1
        /\ DOMAIN Writes(job, id) = 1..(Len(R) + 1)
        /\ \A i \in DOMAIN R : Writes(job, id)[i] = R[i]
        /\ Writes(job, id)[Len(R) + 1] = Write("run", id, job)
    BY <1>2, <1>3, GrowingSequence
  <1>5. \A i \in 1..Len(R) : Good(Writes(job, id)[i])
    BY <1>2, <1>4
  <1> QED
    BY <1>4, <1>5 DEF Good

(* A row that is put in is there, the others stay, and no other comes.     *)
LEMMA PutRows ==
  ASSUME InventoryInv, NEW w, NEW now \in Now, Upsert(w, now)
  PROVE  /\ \A t \in Tables : \A r \in rows[t] :
              \E s \in rows'[t] : s.key = r.key /\ s.val = r.val
         /\ \A t \in Tables : \A s \in rows'[t] :
              \/ t = w.table /\ s.key = w.key /\ s.val = w.val
              \/ \E r \in rows[t] : r.key = s.key /\ r.val = s.val
         /\ w.table \in Tables => HasIn(rows', w)
  <1>1. now \in Nat /\ now # Forever
    BY NowIsLater
  <1>2. \A t \in Tables :
          rows'[t] = IF t = w.table THEN Upserted(rows[t], w.key, w.val, now)
                     ELSE rows[t]
    BY WrittenTables
  <1>3. \A t \in Tables : WellVersioned(rows[t])
    BY DEF InventoryInv
  <1>4. ASSUME NEW t \in Tables, t = w.table
        PROVE  /\ \A r \in rows[t] :
                    \E s \in rows'[t] : s.key = r.key /\ s.val = r.val
               /\ \A s \in rows'[t] :
                    \/ t = w.table /\ s.key = w.key /\ s.val = w.val
                    \/ \E r \in rows[t] : r.key = s.key /\ r.val = s.val
               /\ \E r \in rows'[t] : r.key = w.key /\ r.val = w.val
    <2>1. rows'[t] = Upserted(rows[t], w.key, w.val, now)
      BY <1>2, <1>4
    <2>2. ~Raises(rows[t], w.key, w.val, now)
      BY <1>4 DEF Upsert
    <2>3. \A r \in rows[t] :
            \E s \in rows'[t] : s.key = r.key /\ s.val = r.val
      BY <1>1, <1>3, <2>1, <2>2, UpsertKeepsHistory
    <2>4. /\ \A s \in rows'[t] :
               \/ s.key = w.key /\ s.val = w.val
               \/ \E r \in rows[t] : r.key = s.key /\ r.val = s.val
          /\ \E r \in rows'[t] : r.key = w.key /\ r.val = w.val
      BY <1>1, <1>3, <2>1, UpsertOrigin
    <2> QED
      BY <1>4, <2>3, <2>4
  <1>5. \A t \in Tables : t # w.table => rows'[t] = rows[t]
    BY <1>2
  <1> QED
    BY <1>4, <1>5 DEF HasIn

(* Rows are put in by what is recorded of a job, and by a removal.         *)
LEMMA RowSteps ==
  ASSUME ControlInv, [Next]_vars
  PROVE  \/ rows' = rows
         \/ /\ Record
            /\ \E now \in Now : Upsert(Head(command.todo), now)
         \/ /\ RemoveInventory
            /\ \E r \in ServersFor(Job.host), now \in Now :
                 Upsert(Decommission(Job.host, r), now)
  <1>1. CASE Record
    BY <1>1, RecordTakes
  <1>2. CASE RemoveInventory
    BY <1>2 DEF RemoveInventory, UpsertRaises, inventory
  <1>3. CASE \E c \in situation.choices : Begin(c)
    BY <1>3 DEF Begin, inventory
  <1>4. CASE Pipeline \/ Remote \/ LocalStep \/ LocalStepsDone \/ Recorded
    BY <1>4 DEF Pipeline, Remote, LocalStep, LocalStepsDone, Recorded, inventory
  <1>5. CASE RemoveLocal \/ Removed \/ TunnelUp \/ TunnelDown
    BY <1>5 DEF RemoveLocal, Removed, TunnelUp, TunnelDown, inventory
  <1>6. CASE Crash \/ CrashInInit \/ UNCHANGED vars
    BY <1>6 DEF Crash, CrashInInit, vars, inventory
  <1> QED
    BY <1>1, <1>2, <1>3, <1>4, <1>5, <1>6 DEF Next, Progress

(* Where a step leads to.                                                  *)
LEMMA PcSteps ==
  ASSUME ControlInv, [Next]_vars
  PROVE  /\ command'.pc = "record" =>
              LocalStepsDone \/ Record \/ UNCHANGED vars
         /\ command'.pc = "local" => Remote \/ LocalStep \/ UNCHANGED vars
         /\ command'.pc = "remove" =>
              \/ \E c \in situation.choices : Begin(c)
              \/ RemoveLocal \/ RemoveInventory \/ UNCHANGED vars
  <1>1. HasFields(command)
    BY DEF ControlInv, CommandInv
  <1>2. \A outcome : AfterJob(command, outcome).pc \in {"idle", "pipeline", "remote"}
    BY <1>1, NextJob
  <1>3. \A report : Ended(command, report).pc = "idle"
    BY <1>1, EndedCommand
  <1>4. CASE \E c \in situation.choices : Begin(c)
    <2>1. PICK c \in situation.choices : Begin(c)
      BY <1>4
    <2>2. c.op \in {"apply", "remove", "up", "down"}
      BY ChoicesAssumption DEF ControlInv
    <2>3. command'.pc \in {"idle", "pipeline", "remove", "up", "down"}
      BY <2>1, <2>2 DEF Begin, NoCommand, FirstPc
    <2> QED
      BY <1>4, <2>3
  <1>5. CASE Pipeline
    <2> DEFINE c == [command EXCEPT !.keys = Append(@, KeyOf(Job))]
    <2>1. /\ command.pc = "pipeline"
          /\ \/ command' = AfterPipeline(c)
             \/ command' = AfterJob(c, "failed")
             \/ command' = Ended(c, "failed")
      BY <1>5 DEF Pipeline
    <2>2. HasFields(c) /\ c.pc = "pipeline"
      BY <2>1, KeysAdded
    <2> HIDE DEF c
    <2>3. command'.pc \in {"idle", "pipeline", "remote"}
      BY <2>1, <2>2, PipelineGoesOn, NextJob, EndedCommand
    <2> QED
      BY <2>3
  <1>6. CASE Remote
    <2>1. command'.pc \in {"local", "idle", "pipeline", "remote"}
      <3>1. HasFields(StartedApply) /\ StartedApply.pc = "local"
        BY <1>1, ApplyStarted
      <3>2. [StartedApply EXCEPT !.failed = TRUE].pc = "local"
        BY <3>1 DEF HasFields, Fields
      <3> QED
        BY <1>2, <1>6, <3>1, <3>2 DEF Remote
    <2> QED
      BY <1>6, <2>1
  <1>7. CASE LocalStep
    BY <1>7, LocalStepTakes
  <1>8. CASE LocalStepsDone
    <2>1. command'.pc \in {"record", "idle", "pipeline", "remote"}
      BY <1>2, <1>8, LocalStepsEnd
    <2> QED
      BY <1>8, <2>1
  <1>9. CASE Record
    BY <1>9, RecordTakes
  <1>10. CASE Recorded
    <2>1. command'.pc \in {"idle", "pipeline", "remote"}
      BY <1>2, <1>10 DEF Recorded
    <2> QED
      BY <2>1
  <1>11. CASE RemoveLocal \/ RemoveInventory
    <2>1. command.pc = "remove" /\ \E result : StepEnded(result)
      BY <1>11 DEF RemoveLocal, RemoveInventory
    <2>2. command'.pc = "remove"
      BY <1>1, <2>1, StepEndTakes
    <2> QED
      BY <1>11, <2>2
  <1>12. CASE Removed \/ TunnelUp \/ TunnelDown \/ Crash \/ CrashInInit
    <2>1. \E report : command' = Ended(command, report)
      BY <1>12 DEF Removed, TunnelUp, TunnelDown, Crash, CrashInInit
    <2> QED
      BY <1>3, <2>1
  <1>13. CASE UNCHANGED vars
    BY <1>13
  <1> QED
    BY <1>4, <1>5, <1>6, <1>7, <1>8, <1>9, <1>10, <1>11, <1>12, <1>13
       DEF Next, Progress

(* A row that is put in shows, unless a later one has its key.             *)
LEMMA LastShows ==
  ASSUME InventoryInv, NEW W, NEW k \in Nat, NEW now \in Now, Upsert(W[k + 1], now),
         LastShow(rows, W, k)
  PROVE  LastShow(rows', W, k + 1)
  <1> DEFINE w == W[k + 1]
  <1>1. "service" \in Tables
    BY TheTables
  <1>2. now \in Nat /\ now # Forever
    BY NowIsLater
  <1>3. \A t \in Tables :
          rows'[t] = IF t = w.table THEN Upserted(rows[t], w.key, w.val, now)
                     ELSE rows[t]
    BY WrittenTables
  <1>4. w.table = "service" =>
          Entries(rows'["service"]) =
            {e \in Entries(rows["service"]) : e[1] # w.key} \cup {<<w.key, w.val>>}
    BY <1>1, <1>2, <1>3, UpsertPuts DEF InventoryInv
  <1>5. w.table # "service" => rows'["service"] = rows["service"]
    BY <1>1, <1>3
  <1> SUFFICES ASSUME NEW i \in 1..(k + 1), W[i].table = "service",
                      \A m \in 1..(k + 1) :
                        m > i /\ W[m].table = "service" => W[m].key # W[i].key
               PROVE  <<W[i].key, W[i].val>> \in Entries(rows'["service"])
    BY DEF LastShow
  <1>6. CASE i = k + 1
    BY <1>4, <1>6
  <1>7. CASE i # k + 1
    <2>1. i \in 1..k /\ k + 1 > i /\ k + 1 \in 1..(k + 1)
      BY <1>7
    <2>2. \A m \in 1..k : m \in 1..(k + 1)
      OBVIOUS
    <2>3. <<W[i].key, W[i].val>> \in Entries(rows["service"])
      BY <2>1, <2>2 DEF LastShow
    <2>4. w.table = "service" => w.key # W[i].key
      BY <2>1
    <2> HIDE DEF w
    <2> QED
      BY <1>4, <1>5, <2>3, <2>4
  <1> QED
    BY <1>6, <1>7

(* What is left to record begins with everything, and gets shorter as it   *)
(* is recorded.                                                            *)
LEMMA RecordInvStep ==
  ASSUME ControlInv, InventoryInv, RecordInv, [Next]_vars
  PROVE  RecordInv'
  <1> SUFFICES ASSUME command'.pc = "record", command'.todo # <<>> \/ ~command'.warned
               PROVE  \E k \in Nat : Left(rows', Writes(Job', RunId'), command'.todo, k)
    BY DEF RecordInv
  <1> DEFINE W == Writes(Job, RunId)
             n == Len(W)
  <1>1. CASE LocalStepsDone
    <2>1. command.pc = "local" /\ rows' = rows /\ commands' = commands
      BY <1>1 DEF LocalStepsDone, inventory
    <2>2. /\ command'.jobs = command.jobs /\ command'.at = command.at
          /\ command'.todo = W
      <3>1. \A outcome : AfterJob(command, outcome).pc # "record"
        BY NextJob DEF ControlInv, CommandInv
      <3> QED
        BY <1>1, <3>1, LocalStepsEnd
    <2>3. Job' = Job /\ RunId' = RunId
      BY <2>1, <2>2 DEF Job, RunId
    <2>4. W \in Seq(Range(W)) /\ n \in Nat /\ n >= 1
      BY <2>1, JobAtHand, WritesOfJob
    <2>5. Left(rows', W, command'.todo, 0)
      BY <2>2, <2>4 DEF Left, LastShow
    <2> QED
      BY <2>3, <2>5
  <1>2. CASE Record
    <2>1. command.pc = "record" /\ command.todo # <<>>
      BY <1>2 DEF Record
    <2>2. PICK k \in Nat : Left(rows, W, command.todo, k)
      BY <2>1 DEF RecordInv
    <2>3. /\ command'.jobs = command.jobs /\ command'.at = command.at
          /\ command'.todo = Tail(command.todo)
          /\ \E now \in Now : Upsert(Head(command.todo), now)
          /\ commands' = commands
      BY <1>2, RecordTakes DEF Record
    <2>4. Job' = Job /\ RunId' = RunId
      BY <2>3 DEF Job, RunId
    <2>5. /\ W \in Seq(Range(W)) /\ n \in Nat /\ n >= 1 /\ DOMAIN W = 1..n
          /\ \A i \in 1..n : W[i].table \in Tables
      <3>1. /\ W \in Seq(Range(W)) /\ n \in Nat /\ n >= 1 /\ DOMAIN W = 1..n
            /\ W[n] = Write("run", RunId, Job)
            /\ \A i \in 1..(n - 1) : W[i].table \in {"server", "service"}
        BY <2>1, JobAtHand, WritesOfJob
      <3>2. W[n].table = "run"
        BY <3>1 DEF Write
      <3> HIDE DEF W, n
      <3>3. \A i \in 1..n : i = n \/ i \in 1..(n - 1)
        BY <3>1
      <3> QED
        BY <3>1, <3>2, <3>3, TheTables
    <2> DEFINE todo == command.todo
    <2>6. /\ k \in 0..n
          /\ todo \in Seq(Range(todo)) /\ Len(todo) = n - k
          /\ \A i \in 1..(n - k) : todo[i] = W[k + i]
          /\ \A i \in 1..k : HasIn(rows, W[i])
          /\ LastShow(rows, W, k)
      BY <2>2 DEF Left
    <2> HIDE DEF W, n, todo
    <2>7. /\ Head(todo) = W[k + 1] /\ Len(Tail(todo)) = n - (k + 1)
          /\ \A i \in 1..(n - (k + 1)) : Tail(todo)[i] = todo[i + 1]
          /\ n - k >= 1
      <3>1. todo # <<>>
        BY <2>1 DEF todo
      <3>2. /\ Len(todo) >= 1 /\ Head(todo) = todo[1]
            /\ Len(Tail(todo)) = Len(todo) - 1
            /\ \A i \in 1..(Len(todo) - 1) : Tail(todo)[i] = todo[i + 1]
        BY <2>6, <3>1, ShrinkingSequence
      <3>3. 1 \in 1..(n - k) /\ Len(todo) - 1 = n - (k + 1)
        BY <2>5, <2>6, <3>2
      <3> QED
        BY <2>5, <2>6, <3>2, <3>3
    <2>8. \A i \in 1..(n - (k + 1)) : Tail(todo)[i] = W[(k + 1) + i]
      <3>1. ASSUME NEW i \in 1..(n - (k + 1))
            PROVE  Tail(todo)[i] = W[(k + 1) + i]
        <4>1. i + 1 \in 1..(n - k) /\ k + (i + 1) = (k + 1) + i
          BY <2>5, <2>6
        <4> QED
          BY <2>6, <2>7, <4>1
      <3> QED
        BY <3>1
    <2>9. Tail(todo) \in Seq(Range(Tail(todo)))
      BY <2>1, <2>6, ShrinkingSequence DEF todo
    <2>10. LastShow(rows', W, k + 1)
      <3>1. PICK now \in Now : Upsert(W[k + 1], now)
        BY <2>3, <2>7 DEF todo
      <3> QED
        BY <2>6, <3>1, LastShows
    <2>11. k + 1 \in 0..n /\ k + 1 \in 1..n
      BY <2>5, <2>6, <2>7
    <2>12. \A i \in 1..(k + 1) : HasIn(rows', W[i])
      <3>1. PICK now \in Now : Upsert(W[k + 1], now)
        BY <2>3, <2>7 DEF todo
      <3>2. HasIn(rows', W[k + 1])
        BY <2>5, <2>11, <3>1, PutRows
      <3>3. ASSUME NEW i \in 1..k
            PROVE  HasIn(rows', W[i])
        <4>1. i \in 1..n /\ W[i].table \in Tables
          BY <2>5, <2>6
        <4>2. HasIn(rows, W[i])
          BY <2>6
        <4>3. \A t \in Tables : \A r \in rows[t] :
                \E s \in rows'[t] : s.key = r.key /\ s.val = r.val
          BY <3>1, PutRows
        <4> QED
          BY <4>1, <4>2, <4>3 DEF HasIn
      <3> QED
        BY <3>2, <3>3
    <2>13. Left(rows', W, Tail(todo), k + 1)
      BY <2>7, <2>8, <2>9, <2>10, <2>11, <2>12 DEF Left, n
    <2>14. k + 1 \in Nat /\ W = Writes(Job', RunId') /\ command'.todo = Tail(todo)
      BY <2>3, <2>4 DEF W, todo
    <2> QED
      BY <2>13, <2>14
  <1>3. CASE UNCHANGED vars
    BY <1>3 DEF RecordInv, vars, Left, LastShow, Job, RunId, inventory
  <1> QED
    BY <1>1, <1>2, <1>3, PcSteps

(* What is recorded of a job is still recorded.                            *)
LEMMA StillRecorded ==
  ASSUME NEW job, job.parts \in Seq(Range(job.parts)), NEW id,
         RecordedIn(rows, job, id),
         \A t \in Tables : \A r \in rows[t] :
           \E s \in rows'[t] : s.key = r.key /\ s.val = r.val
  PROVE  RecordedIn(rows', job, id)
  <1> DEFINE W == Writes(job, id)
             n == Len(W)
  <1>1. /\ n \in Nat /\ DOMAIN W = 1..n
        /\ W[n] = Write("run", id, job)
        /\ \A i \in 1..(n - 1) : W[i].table \in {"server", "service"}
    BY WritesOfJob
  <1>2. W[n].table = "run"
    BY <1>1 DEF Write
  <1> HIDE DEF n
  <1>3. ASSUME NEW i \in DOMAIN W
        PROVE  W[i].table \in Tables
    <2>1. i = n \/ i \in 1..(n - 1)
      BY <1>1
    <2> QED
      BY <1>1, <1>2, <2>1, TheTables
  <1> QED
    BY <1>3 DEF RecordedIn, HasIn

(* A run is put in when all else has been.                                 *)
LEMMA RunsInvStep ==
  ASSUME ControlInv, InventoryInv, RecordInv, RunsInv, [Next]_vars
  PROVE  RunsInv'
  <1>1. Hosts' = Hosts
    BY SituationStays
  <1>2. ASSUME NEW j, IsJob(j)
        PROVE  IsJob(j)'
    BY <1>1, <1>2 DEF IsJob
  <1>3. "run" \in Tables /\ "server" \in Tables
    BY TheTables
  <1>4. ASSUME \A t \in Tables : \A r \in rows[t] :
                 \E s \in rows'[t] : s.key = r.key /\ s.val = r.val,
               NEW r \in rows["run"]
        PROVE  IsJob(r.val)' /\ RecordedIn(rows', r.val, r.key)
    <2>1. IsJob(r.val) /\ RecordedIn(rows, r.val, r.key)
      BY DEF RunsInv
    <2>2. r.val.parts \in Seq(Range(r.val.parts))
      BY <2>1 DEF IsJob
    <2> QED
      BY <1>2, <1>4, <2>1, <2>2, StillRecorded
  <1>5. CASE rows' = rows
    BY <1>4, <1>5 DEF RunsInv
  <1>6. CASE Record /\ \E now \in Now : Upsert(Head(command.todo), now)
    <2> DEFINE job == Job
               id == RunId
               W == Writes(job, id)
               n == Len(W)
               w == Head(command.todo)
    <2>1. command.pc = "record" /\ command.todo # <<>>
      BY <1>6 DEF Record
    <2>2. IsJob(job) /\ job.parts \in Seq(Range(job.parts))
      BY <2>1, JobAtHand DEF IsJob
    <2>3. PICK now \in Now : Upsert(w, now)
      BY <1>6
    <2>4. /\ \A t \in Tables : \A r \in rows[t] :
               \E s \in rows'[t] : s.key = r.key /\ s.val = r.val
          /\ \A t \in Tables : \A s \in rows'[t] :
               \/ t = w.table /\ s.key = w.key /\ s.val = w.val
               \/ \E r \in rows[t] : r.key = s.key /\ r.val = s.val
          /\ w.table \in Tables => HasIn(rows', w)
      BY <2>3, PutRows
    <2>5. PICK k \in Nat : Left(rows, W, command.todo, k)
      BY <2>1 DEF RecordInv
    <2>6. /\ n \in Nat /\ n >= 1 /\ DOMAIN W = 1..n
          /\ W[n] = Write("run", id, job)
          /\ \A i \in 1..(n - 1) : W[i].table \in {"server", "service"}
      BY <2>2, WritesOfJob
    <2>7. W[n].table = "run" /\ W[n].key = id /\ W[n].val = job
      BY <2>6 DEF Write
    <2>8. /\ k \in 0..(n - 1) /\ w = W[k + 1]
          /\ \A i \in 1..k : HasIn(rows, W[i])
      <3>1. /\ k \in 0..n /\ Len(command.todo) = n - k
            /\ command.todo \in Seq(Range(command.todo))
            /\ \A i \in 1..(n - k) : command.todo[i] = W[k + i]
            /\ \A i \in 1..k : HasIn(rows, W[i])
        BY <2>5 DEF Left
      <3>2. w = command.todo[1] /\ Len(command.todo) >= 1
        BY <2>1, <3>1, ShrinkingSequence
      <3> HIDE DEF w, n
      <3>3. 1 \in 1..(n - k) /\ k \in 0..(n - 1)
        BY <2>6, <3>1, <3>2
      <3> QED
        BY <3>1, <3>2, <3>3
    <2> HIDE DEF w, n, W, job, id
    <2>9. ASSUME NEW s \in rows'["run"]
          PROVE  IsJob(s.val)' /\ RecordedIn(rows', s.val, s.key)
      <3>1. CASE \E r \in rows["run"] : r.key = s.key /\ r.val = s.val
        <4>1. PICK r \in rows["run"] : r.key = s.key /\ r.val = s.val
          BY <3>1
        <4> QED
          BY <1>4, <2>4, <4>1
      <3>2. CASE "run" = w.table /\ s.key = w.key /\ s.val = w.val
        <4>1. k + 1 = n
          <5>1. k + 1 \in 1..(n - 1) \/ k + 1 = n
            BY <2>6, <2>8
          <5>2. k + 1 \in 1..(n - 1) => w.table \in {"server", "service"}
            BY <2>6, <2>8
          <5> QED
            BY <3>2, <5>1, <5>2
        <4>2. s.key = id /\ s.val = job
          BY <2>7, <2>8, <3>2, <4>1
        <4>3. ASSUME NEW i \in 1..n
              PROVE  HasIn(rows', W[i])
          <5>1. CASE i = n
            BY <1>3, <2>4, <2>7, <2>8, <4>1, <5>1
          <5>2. CASE i # n
            <6>1. i \in 1..k /\ i \in 1..(n - 1)
              BY <2>6, <2>8, <4>1, <5>2
            <6>2. HasIn(rows, W[i]) /\ W[i].table \in Tables
              BY <2>6, <2>8, <6>1, TheTables
            <6> QED
              BY <2>4, <6>2 DEF HasIn
          <5> QED
            BY <5>1, <5>2
        <4>4. RecordedIn(rows', job, id)
          BY <2>6, <4>3 DEF RecordedIn, W
        <4> QED
          BY <1>2, <2>2, <4>2, <4>4
      <3> QED
        BY <1>3, <2>4, <3>1, <3>2
    <2> QED
      BY <2>9 DEF RunsInv
  <1>7. CASE /\ RemoveInventory
             /\ \E r \in ServersFor(Job.host), now \in Now :
                  Upsert(Decommission(Job.host, r), now)
    <2>1. PICK q \in ServersFor(Job.host), now \in Now :
            Upsert(Decommission(Job.host, q), now)
      BY <1>7
    <2> DEFINE w == Decommission(Job.host, q)
    <2>2. w.table = "server"
      BY DEF Decommission, Write
    <2>3. /\ \A t \in Tables : \A r \in rows[t] :
               \E s \in rows'[t] : s.key = r.key /\ s.val = r.val
          /\ \A t \in Tables : \A s \in rows'[t] :
               \/ t = w.table /\ s.key = w.key /\ s.val = w.val
               \/ \E r \in rows[t] : r.key = s.key /\ r.val = s.val
      BY <2>1, PutRows
    <2> HIDE DEF w
    <2>4. ASSUME NEW s \in rows'["run"]
          PROVE  IsJob(s.val)' /\ RecordedIn(rows', s.val, s.key)
      <3>1. PICK r \in rows["run"] : r.key = s.key /\ r.val = s.val
        BY <1>3, <2>2, <2>3
      <3> QED
        BY <1>4, <2>3, <3>1
    <2> QED
      BY <2>4 DEF RunsInv
  <1> QED
    BY <1>5, <1>6, <1>7, RowSteps

(* A run is never in the inventory without everything that is recorded     *)
(* with it, whatever ended the command that recorded it.                   *)
THEOREM RecordedRunsAreComplete == Spec => []RunsAreComplete
  <1>1. Init => RecordInv /\ RunsInv
    <2>1. Init => command.pc = "idle" /\ rows["run"] = {}
      BY TheTables DEF Init, NoCommand
    <2> QED
      BY <2>1 DEF RecordInv, RunsInv
  <1>2. ControlInv /\ InventoryInv /\ RecordInv /\ RunsInv /\ [Next]_vars
        => RecordInv' /\ RunsInv'
    BY RecordInvStep, RunsInvStep
  <1>3. RunsInv => RunsAreComplete
    BY DEF RunsInv, RunsAreComplete, RecordedIn, IsRecorded, HasIn
  <1> QED
    BY <1>1, <1>2, <1>3, CommandsInOrder, InventoryIsVersioned, PTL DEF Spec

-----------------------------------------------------------------------------
(* What belongs to a host changes with commands about it only.             *)

ActiveInv == active = [i \in {Interface[h] : h \in Hosts} |-> active[i]]

TornDown(h) == active' = [active EXCEPT ![Interface[h]] = NoKey]
BroughtUp(h) ==
  /\ Found(h).conf # NoKey
  /\ active' = [active EXCEPT ![Interface[h]] =
                  IF @ # NoKey THEN @ ELSE Found(h).conf]

(* Key pairs come with the pipeline and go with a removal, ssh fragments   *)
(* come after an apply; tunnels are brought up and torn down.              *)
LEMMA FileSteps ==
  ASSUME ControlInv, [Next]_vars
  PROVE  /\ \/ keyPairs' = keyPairs
            \/ /\ Pipeline /\ Job.host.provider # ""
               /\ keyPairs' = keyPairs \cup {Job.host}
            \/ /\ RemoveLocal /\ Head(command.todo) = "keys"
               /\ keyPairs' = keyPairs \ {Job.host}
         /\ \/ confD' = confD
            \/ /\ LocalStep /\ Head(command.todo) = "ssh"
               /\ confD' = confD \cup {Job.host}
            \/ /\ RemoveLocal /\ Head(command.todo) = "ssh"
               /\ confD' = confD \ {Job.host}
         /\ \/ active' = active
            \/ RemoveLocal /\ Head(command.todo) = "tunnel" /\ TornDown(Job.host)
            \/ TunnelDown /\ TornDown(Job.host)
            \/ TunnelUp /\ BroughtUp(Job.host)
  <1>1. CASE Pipeline
    BY <1>1 DEF Pipeline, GeneratesKeys, localState
  <1>2. CASE LocalStep
    BY <1>2 DEF LocalStep
  <1>3. CASE RemoveLocal
    <2>1. \/ Head(command.todo) = "tunnel" /\ TearDown(Job.host)
          \/ Head(command.todo) # "tunnel" /\ RemoveDir(Job.host, Head(command.todo))
          \/ UNCHANGED localState
      BY <1>3 DEF RemoveLocal
    <2>2. CASE Head(command.todo) = "tunnel" /\ TearDown(Job.host)
      BY <1>3, <2>2 DEF TearDown, TornDown
    <2>3. CASE RemoveDir(Job.host, Head(command.todo))
      BY <1>3, <2>3 DEF RemoveDir
    <2>4. CASE UNCHANGED localState
      BY <2>4 DEF localState
    <2> QED
      BY <2>1, <2>2, <2>3, <2>4
  <1>4. CASE \E c \in situation.choices : Begin(c)
    BY <1>4 DEF Begin, localState
  <1>5. CASE Remote \/ LocalStepsDone \/ Record \/ Recorded
    BY <1>5 DEF Remote, LocalStepsDone, Record, Recorded, localState
  <1>6. CASE RemoveInventory \/ Removed
    BY <1>6 DEF RemoveInventory, Removed, localState
  <1>7. CASE TunnelUp
    BY <1>7 DEF TunnelUp, BroughtUp
  <1>8. CASE TunnelDown
    BY <1>8 DEF TunnelDown, TearDown, TornDown, localState
  <1>9. CASE Crash \/ CrashInInit \/ UNCHANGED vars
    BY <1>9 DEF Crash, CrashInInit, vars, localState
  <1> QED
    BY <1>1, <1>2, <1>3, <1>4, <1>5, <1>6, <1>7, <1>8, <1>9 DEF Next, Progress

(* Tunnels are those of interfaces that hosts are given; only the job's    *)
(* host's changes.                                                         *)
LEMMA ActiveSteps ==
  ASSUME ControlInv, ActiveInv, [Next]_vars
  PROVE  /\ ActiveInv'
         /\ \A g \in Hosts : Interface[g] # Interface[Job.host] =>
              active'[Interface[g]] = active[Interface[g]]
         /\ TornDown(Job.host) /\ command.pc # "idle" =>
              active'[Interface[Job.host]] = NoKey
         /\ BroughtUp(Job.host) /\ command.pc # "idle" =>
              active'[Interface[Job.host]] =
                IF active[Interface[Job.host]] # NoKey
                  THEN active[Interface[Job.host]] ELSE Found(Job.host).conf
  <1> DEFINE i == Interface[Job.host]
             I == {Interface[h] : h \in Hosts}
  <1>1. Hosts' = Hosts
    BY SituationStays
  <1>2. command.pc # "idle" => i \in I
    BY JobAtHand
  <1>3. active' = active \/ \E k : active' = [active EXCEPT ![i] = k]
    BY FileSteps DEF TornDown, BroughtUp
  <1>4. active = [j \in I |-> active[j]]
    BY DEF ActiveInv
  <1>5. \A g \in Hosts : Interface[g] \in I
    OBVIOUS
  <1>6. TornDown(Job.host) => active' = [active EXCEPT ![i] = NoKey]
    BY DEF TornDown
  <1>7. BroughtUp(Job.host) =>
          active' = [active EXCEPT ![i] =
                       IF active[i] # NoKey THEN active[i] ELSE Found(Job.host).conf]
    BY DEF BroughtUp
  <1>8. active' = [j \in I |-> active'[j]]
    <2> HIDE DEF i, I
    <2> QED
      BY <1>3, <1>4
  <1>9. ActiveInv'
    BY <1>1, <1>8 DEF ActiveInv
  <1>10. \A j \in I : j # i => active'[j] = active[j]
    <2> HIDE DEF i, I
    <2> QED
      BY <1>3, <1>4
  <1> HIDE DEF i, I
  <1>11. TornDown(Job.host) /\ command.pc # "idle" => active'[i] = NoKey
    BY <1>2, <1>4, <1>6
  <1>12. BroughtUp(Job.host) /\ command.pc # "idle" =>
           active'[i] = IF active[i] # NoKey THEN active[i] ELSE Found(Job.host).conf
    BY <1>2, <1>4, <1>7
  <1> QED
    BY <1>5, <1>9, <1>10, <1>11, <1>12 DEF i

(* Of servers, only the job's is written: it is bootstrapped, or removed.  *)
LEMMA ServerSteps ==
  ASSUME ControlInv, InventoryInv, RecordInv, [Next]_vars
  PROVE  \/ rows'["server"] = rows["server"]
         \/ /\ command.pc # "idle"
            /\ \E val, now :
                 /\ now \in Nat /\ now # Forever
                 /\ rows'["server"] = Upserted(rows["server"], Job.host, val, now)
                 /\ \/ command.pc = "record"
                    \/ RemoveInventory /\ val.status = "decommissioned"
  <1>1. "server" \in Tables
    BY TheTables
  <1>2. CASE Record /\ \E now \in Now : Upsert(Head(command.todo), now)
    <2> DEFINE w == Head(command.todo)
               W == Writes(Job, RunId)
               n == Len(W)
    <2>1. command.pc = "record" /\ command.todo # <<>>
      BY <1>2 DEF Record
    <2>2. PICK now \in Now : Upsert(w, now)
      BY <1>2
    <2>3. now \in Nat /\ now # Forever
      BY NowIsLater
    <2>4. rows'["server"] = IF "server" = w.table
                              THEN Upserted(rows["server"], w.key, w.val, now)
                              ELSE rows["server"]
      BY <1>1, <2>2, WrittenTables
    <2>5. w.table = "server" => w.key = Job.host
      <3>1. PICK k \in Nat : Left(rows, W, command.todo, k)
        BY <2>1 DEF RecordInv
      <3>2. /\ n \in Nat /\ n >= 1
            /\ W[n] = Write("run", RunId, Job)
            /\ \A i \in 1..(n - 1) : W[i].table = "server" => W[i].key = Job.host
        BY <2>1, JobAtHand, WritesOfJob
      <3>3. W[n].table # "server"
        BY <3>2 DEF Write
      <3>4. /\ k \in 0..n /\ Len(command.todo) = n - k
            /\ command.todo \in Seq(Range(command.todo))
            /\ \A i \in 1..(n - k) : command.todo[i] = W[k + i]
        BY <3>1 DEF Left
      <3>5. w = command.todo[1] /\ Len(command.todo) >= 1
        BY <2>1, <3>4, ShrinkingSequence
      <3> HIDE DEF w, n, W
      <3>6. w = W[k + 1] /\ (k + 1 = n \/ k + 1 \in 1..(n - 1))
        <4>1. 1 \in 1..(n - k) /\ k \in 0..(n - 1)
          BY <3>2, <3>4, <3>5
        <4> QED
          BY <3>2, <3>4, <3>5, <4>1
      <3> QED
        BY <3>2, <3>3, <3>6
    <2> HIDE DEF w
    <2> QED
      BY <2>1, <2>3, <2>4, <2>5
  <1>3. CASE /\ RemoveInventory
             /\ \E r \in ServersFor(Job.host), now \in Now :
                  Upsert(Decommission(Job.host, r), now)
    <2>1. PICK q \in ServersFor(Job.host), now \in Now :
            Upsert(Decommission(Job.host, q), now)
      BY <1>3
    <2> DEFINE w == Decommission(Job.host, q)
    <2>2. w.table = "server" /\ w.key = Job.host /\ w.val.status = "decommissioned"
      BY DEF Decommission, Write, ServerRow
    <2>3. now \in Nat /\ now # Forever
      BY NowIsLater
    <2>4. rows'["server"] = Upserted(rows["server"], Job.host, w.val, now)
      BY <1>1, <2>1, <2>2, WrittenTables
    <2>5. command.pc # "idle"
      BY <1>3 DEF RemoveInventory
    <2> HIDE DEF w
    <2> QED
      BY <1>3, <2>2, <2>3, <2>4, <2>5
  <1> QED
    BY <1>2, <1>3, RowSteps

(* What the inventory shows of servers: only the job's changes.            *)
LEMMA ServersShown ==
  ASSUME ControlInv, InventoryInv, RecordInv, [Next]_vars
  PROVE  /\ \A g : command.pc = "idle" \/ g # Job.host =>
              CurrentOf(rows'["server"], g) = CurrentOf(rows["server"], g)
         /\ \/ CurrentOf(rows'["server"], Job.host) = CurrentOf(rows["server"], Job.host)
            \/ command.pc = "record"
            \/ /\ RemoveInventory
               /\ \A r \in CurrentOf(rows'["server"], Job.host) :
                    r.val.status = "decommissioned"
  <1>1. WellVersioned(rows["server"])
    BY TheTables DEF InventoryInv
  <1>2. CASE rows'["server"] = rows["server"]
    BY <1>2
  <1>3. CASE /\ command.pc # "idle"
             /\ \E val, now :
                  /\ now \in Nat /\ now # Forever
                  /\ rows'["server"] = Upserted(rows["server"], Job.host, val, now)
                  /\ \/ command.pc = "record"
                     \/ RemoveInventory /\ val.status = "decommissioned"
    BY <1>1, <1>3, UpsertCurrent
  <1> QED
    BY <1>2, <1>3, ServerSteps

(* Of services, the job's are written: those filed under its bare name.    *)
LEMMA ServiceSteps ==
  ASSUME ControlInv, InventoryInv, RecordInv, [Next]_vars
  PROVE  \/ rows'["service"] = rows["service"]
         \/ /\ command.pc # "idle"
            /\ \E key, val, now :
                 /\ now \in Nat /\ now # Forever
                 /\ rows'["service"] = Upserted(rows["service"], key, val, now)
                 /\ key[1] = Flat(Job.host)
  <1>1. "service" \in Tables
    BY TheTables
  <1>2. CASE Record /\ \E now \in Now : Upsert(Head(command.todo), now)
    <2> DEFINE w == Head(command.todo)
               W == Writes(Job, RunId)
               n == Len(W)
    <2>1. command.pc = "record" /\ command.todo # <<>>
      BY <1>2 DEF Record
    <2>2. PICK now \in Now : Upsert(w, now)
      BY <1>2
    <2>3. now \in Nat /\ now # Forever
      BY NowIsLater
    <2>4. rows'["service"] = IF "service" = w.table
                               THEN Upserted(rows["service"], w.key, w.val, now)
                               ELSE rows["service"]
      BY <1>1, <2>2, WrittenTables
    <2>5. w.table = "service" => w.key[1] = Flat(Job.host)
      <3>1. PICK k \in Nat : Left(rows, W, command.todo, k)
        BY <2>1 DEF RecordInv
      <3>2. /\ n \in Nat /\ n >= 1
            /\ W[n] = Write("run", RunId, Job)
            /\ \A i \in 1..(n - 1) :
                 W[i].table = "service" => W[i].key[1] = Flat(Job.host)
        BY <2>1, JobAtHand, WritesOfJob
      <3>3. W[n].table # "service"
        BY <3>2 DEF Write
      <3>4. /\ k \in 0..n /\ Len(command.todo) = n - k
            /\ command.todo \in Seq(Range(command.todo))
            /\ \A i \in 1..(n - k) : command.todo[i] = W[k + i]
        BY <3>1 DEF Left
      <3>5. w = command.todo[1] /\ Len(command.todo) >= 1
        BY <2>1, <3>4, ShrinkingSequence
      <3> HIDE DEF w, n, W
      <3>6. w = W[k + 1] /\ (k + 1 = n \/ k + 1 \in 1..(n - 1))
        <4>1. 1 \in 1..(n - k) /\ k \in 0..(n - 1)
          BY <3>2, <3>4, <3>5
        <4> QED
          BY <3>2, <3>4, <3>5, <4>1
      <3> QED
        BY <3>2, <3>3, <3>6
    <2> HIDE DEF w
    <2> QED
      BY <2>1, <2>3, <2>4, <2>5
  <1>3. CASE /\ RemoveInventory
             /\ \E r \in ServersFor(Job.host), now \in Now :
                  Upsert(Decommission(Job.host, r), now)
    <2>1. PICK q \in ServersFor(Job.host), now \in Now :
            Upsert(Decommission(Job.host, q), now)
      BY <1>3
    <2>2. Decommission(Job.host, q).table = "server"
      BY DEF Decommission, Write
    <2> QED
      BY <1>1, <2>1, <2>2, WrittenTables
  <1> QED
    BY <1>2, <1>3, RowSteps

(* What the inventory shows of services: only those filed under the job's  *)
(* bare name change.                                                       *)
LEMMA ServicesShown ==
  ASSUME ControlInv, InventoryInv, RecordInv, [Next]_vars,
         NEW g, Flat(g) # Flat(Job.host)
  PROVE  ServicesOf(rows'["service"], g) = ServicesOf(rows["service"], g)
  <1>1. WellVersioned(rows["service"])
    BY TheTables DEF InventoryInv
  <1>2. CASE rows'["service"] = rows["service"]
    BY <1>2
  <1>3. CASE \E key, val, now :
               /\ now \in Nat /\ now # Forever
               /\ rows'["service"] = Upserted(rows["service"], key, val, now)
               /\ key[1] = Flat(Job.host)
    <2>1. PICK key, val, now :
            /\ now \in Nat /\ now # Forever
            /\ rows'["service"] = Upserted(rows["service"], key, val, now)
            /\ key[1] = Flat(Job.host)
      BY <1>3
    <2>2. \A k : k # key =>
            CurrentOf(rows'["service"], k) = CurrentOf(rows["service"], k)
      BY <1>1, <2>1, UpsertCurrent
    <2>3. \A k : k[1] = Flat(g) => k # key
      BY <2>1
    <2>4. \A r : r.key[1] = Flat(g) =>
            (r \in View(rows'["service"]) <=> r \in View(rows["service"]))
      <3> TAKE r
      <3> HAVE r.key[1] = Flat(g)
      <3>1. CurrentOf(rows'["service"], r.key) = CurrentOf(rows["service"], r.key)
        BY <2>2, <2>3
      <3> QED
        BY <3>1 DEF CurrentOf
    <2> QED
      BY <2>4 DEF ServicesOf
  <1> QED
    BY <1>2, <1>3, ServiceSteps

(* Hosts of different names share no directory.                            *)
LEMMA FlatNames ==
  ASSUME NEW g, NEW h, g.name # h.name
  PROVE  Flat(g) # Flat(h)
  BY DEF Flat

(* Of the store, other directories stay, but that keys are put in the flat *)
(* one of the job's host where there are none; its own keys stay until it  *)
(* is removed.                                                             *)
LEMMA StoreKept ==
  ASSUME ControlInv, StoreInv, [Next]_vars, command.pc # "idle"
  PROVE  /\ \A d \in Dirs \ {Job.host} :
              \/ wg'[d] = wg[d]
              \/ /\ d = Flat(Job.host) /\ wg[d].key = NoKey
                 /\ wg'[d].conf = wg[d].conf
         /\ wg[Job.host].key \in {NoKey, wg'[Job.host].key} \/ command.op = "remove"
  <1> DEFINE h == Job.host
  <1>1. situation \in Situations /\ h \in Hosts
    BY JobAtHand DEF ControlInv
  <1>2. h \in Dirs /\ Flat(h) \in Dirs /\ Hosts \subseteq Dirs
    BY <1>1, HostDirs
  <1> HIDE DEF h
  <1>3. CASE wg' = wg
    BY <1>3
  <1>4. CASE wg' = Persisted(h, KeyOf(Job))
    <2>1. /\ \A d \in Dirs : d # Flat(h) => wg'[d] = wg[d]
          /\ wg'[Flat(h)] =
               [exists |-> TRUE, key |-> WriteOnce(wg[Flat(h)].key, KeyOf(Job)),
                conf |-> wg[Flat(h)].conf]
      BY <1>1, <1>4, PersistedDirs
    <2>2. /\ wg'[Flat(h)].conf = wg[Flat(h)].conf
          /\ wg[Flat(h)].key # NoKey =>
               /\ wg'[Flat(h)].key = wg[Flat(h)].key
               /\ wg'[Flat(h)] = wg[Flat(h)]
      <3>1. wg'[Flat(h)].conf = wg[Flat(h)].conf
        BY <2>1
      <3>2. ASSUME wg[Flat(h)].key # NoKey
            PROVE  wg'[Flat(h)] = wg[Flat(h)]
        <4>1. IsDir(wg[Flat(h)]) /\ wg[Flat(h)] # NoDir
          BY <1>2, <3>2 DEF StoreInv, NoDir
        <4>2. wg'[Flat(h)] = [exists |-> TRUE, key |-> wg[Flat(h)].key,
                              conf |-> wg[Flat(h)].conf]
          BY <2>1, <3>2 DEF WriteOnce
        <4> QED
          BY <4>1, <4>2 DEF IsDir
      <3> QED
        BY <3>1, <3>2
    <2>3. wg[h].key \in {NoKey, wg'[h].key}
      BY <1>2, <2>1, <2>2
    <2> QED
      BY <1>2, <2>1, <2>2, <2>3 DEF h
  <1>5. CASE wg' = Saved(h, Key)
    <2>1. /\ \A d \in Dirs : d # h => wg'[d] = wg[d]
          /\ wg'[h] = [exists |-> TRUE, key |-> WriteOnce(wg[h].key, Key), conf |-> Key]
      BY <1>1, <1>5, SavedDirs
    <2>2. wg[h].key = NoKey \/ wg'[h].key = wg[h].key
      BY <2>1 DEF WriteOnce
    <2> QED
      BY <1>2, <2>1, <2>2 DEF h
  <1>6. CASE RemoveLocal /\ DirRemoved(h)
    <2>1. \A d \in Dirs : d # h => wg'[d] = wg[d]
      BY <1>2, <1>6 DEF DirRemoved, StoreInv
    <2>2. command.op = "remove"
      BY <1>6 DEF RemoveLocal, ControlInv, CommandInv
    <2> QED
      BY <1>2, <2>1, <2>2 DEF h
  <1> QED
    BY <1>3, <1>4, <1>5, <1>6, StoreSteps DEF h

(* What a command about one host leaves alone.                             *)
LEMMA LeftAlone ==
  ASSUME ControlInv, InventoryInv, RecordInv, StoreInv, ActiveInv,
         [Next]_vars, command.pc # "idle"
  PROVE  LET h == Job.host
         IN  /\ \A g \in Hosts \ {h} :
                  /\ g \in keyPairs <=> g \in keyPairs'
                  /\ g \in confD <=> g \in confD'
                  /\ Interface[g] # Interface[h] =>
                       active[Interface[g]] = active'[Interface[g]]
                  /\ CurrentOf(rows["server"], g) = CurrentOf(rows'["server"], g)
                  /\ g.name # h.name =>
                       ServicesOf(rows["service"], g) = ServicesOf(rows'["service"], g)
             /\ \A d \in Dirs \ {h} :
                  \/ wg'[d] = wg[d]
                  \/ /\ d = Flat(h) /\ wg[d].key = NoKey
                     /\ wg'[d].conf = wg[d].conf
             /\ wg[h].key \in {NoKey, wg'[h].key} \/ command.op = "remove"
  <1>1. \A g \in Hosts \ {Job.host} :
          /\ g \in keyPairs <=> g \in keyPairs'
          /\ g \in confD <=> g \in confD'
    <2>1. \/ keyPairs' = keyPairs \/ keyPairs' = keyPairs \cup {Job.host}
          \/ keyPairs' = keyPairs \ {Job.host}
      BY FileSteps
    <2>2. \/ confD' = confD \/ confD' = confD \cup {Job.host}
          \/ confD' = confD \ {Job.host}
      BY FileSteps
    <2> QED
      BY <2>1, <2>2
  <1>2. \A g \in Hosts : Interface[g] # Interface[Job.host] =>
          active[Interface[g]] = active'[Interface[g]]
    BY ActiveSteps
  <1>3. \A g \in Hosts \ {Job.host} :
          CurrentOf(rows["server"], g) = CurrentOf(rows'["server"], g)
    BY ServersShown
  <1>4. \A g \in Hosts : g.name # Job.host.name =>
          ServicesOf(rows["service"], g) = ServicesOf(rows'["service"], g)
    BY ServicesShown, FlatNames
  <1>5. /\ \A d \in Dirs \ {Job.host} :
             \/ wg'[d] = wg[d]
             \/ /\ d = Flat(Job.host) /\ wg[d].key = NoKey
                /\ wg'[d].conf = wg[d].conf
        /\ wg[Job.host].key \in {NoKey, wg'[Job.host].key} \/ command.op = "remove"
    BY StoreKept
  <1> QED
    BY <1>1, <1>2, <1>3, <1>4, <1>5

(* What is in the tables and the tunnels when a step is taken.             *)
LocalInv == TypeInv /\ RecordInv /\ ActiveInv

(* All of it at once.                                                      *)
LEMMA LocalStays == Spec => []LocalInv
  <1>1. Init => RecordInv /\ ActiveInv
    <2>1. Init => command.pc = "idle"
      BY DEF Init, NoCommand
    <2> QED
      BY <2>1 DEF RecordInv, Init, ActiveInv
  <1>2. TypeInv /\ RecordInv /\ ActiveInv /\ [Next]_vars => RecordInv' /\ ActiveInv'
    BY RecordInvStep, ActiveSteps DEF TypeInv
  <1> QED
    BY <1>1, <1>2, TypesStay, PTL DEF Spec, LocalInv

(* A command about one host leaves the key pairs, ssh fragments, tunnels,  *)
(* inventory rows and WireGuard directories of others as they are, in      *)
(* every step, of applies, removals and tunnels, whatever fails: but for   *)
(* an interface of the same name, the service rows that hosts of one bare  *)
(* name share, and keys put in the flat directory of that name where there *)
(* are none.  Its own key is lost by its removal only.                     *)
THEOREM OthersStay == Spec => OthersAreLeftAlone
  <1> DEFINE LeavesOthers ==
        LET h == Job.host
        IN  command.pc # "idle" =>
              /\ \A g \in Hosts \ {h} :
                   /\ g \in keyPairs <=> g \in keyPairs'
                   /\ g \in confD <=> g \in confD'
                   /\ Interface[g] # Interface[h] =>
                        active[Interface[g]] = active'[Interface[g]]
                   /\ CurrentOf(rows["server"], g) = CurrentOf(rows'["server"], g)
                   /\ g.name # h.name =>
                        ServicesOf(rows["service"], g) = ServicesOf(rows'["service"], g)
              /\ \A d \in Dirs \ {h} :
                   \/ wg'[d] = wg[d]
                   \/ /\ d = Flat(h) /\ wg[d].key = NoKey
                      /\ wg'[d].conf = wg[d].conf
              /\ wg[h].key \in {NoKey, wg'[h].key} \/ command.op = "remove"
  <1>1. ASSUME LocalInv, [Next]_vars
        PROVE  [LeavesOthers]_vars
    BY <1>1, LeftAlone DEF LocalInv, TypeInv, FilesInv
  <1>2. LocalInv /\ [Next]_vars => [LeavesOthers]_vars
    BY <1>1
  <1> QED
    BY <1>2, LocalStays, PTL DEF Spec, OthersAreLeftAlone

-----------------------------------------------------------------------------
(* How a step moves on in the jobs of a command.                           *)

SameJobs == command'.jobs = command.jobs /\ command'.fleet = command.fleet

Begins ==
  /\ command.pc = "idle" /\ command'.at = 1 /\ command'.pc \notin OnServer
  /\ \E c \in situation.choices : Begin(c) /\ command'.jobs = Selected(c)
  /\ command'.pc = "remove" =>
       command'.todo = Steps("remove") /\ command'.results = <<>>

InPipeline ==
  /\ Pipeline /\ SameJobs
  /\ command'.keys \in Seq(Range(command'.keys))
  /\ Len(command'.keys) = command.at /\ command'.keys[command.at] = KeyOf(Job)
  /\ \A i \in 1..(command.at - 1) : command'.keys[i] = command.keys[i]
  /\ \/ command.fleet /\ command'.pc = "remote" /\ command'.at = command.at
     \/ command.fleet /\ command'.pc = "pipeline" /\ command'.at = command.at + 1
     \/ /\ ~command.fleet /\ command'.pc = "pipeline"
        /\ command.at < Len(command.jobs) /\ command'.at = command.at + 1
     \/ /\ ~command.fleet /\ command'.pc = "remote"
        /\ command.at = Len(command.jobs) /\ command'.at = 1

AtTheJob ==
  /\ SameJobs /\ command'.keys = command.keys /\ command'.at = command.at
  /\ command.pc \in OnServer /\ command'.pc \in OnServer

ToNextJob ==
  /\ SameJobs /\ command'.keys = command.keys
  /\ command.pc \in OnServer /\ command'.at = command.at + 1
  /\ command.fleet => command'.pc = "pipeline"
  /\ ~command.fleet => command'.pc = "remote" /\ command.at < Len(command.jobs)

Removing ==
  /\ command.pc = "remove" /\ command'.pc = "remove" /\ SameJobs
  /\ command'.at = command.at
  /\ RemoveLocal \/ RemoveInventory

(* The end of a job is the end of the command, or leads to the next job.   *)
LEMMA JobEnds ==
  ASSUME ControlInv, command.pc \in OnServer,
         NEW outcome, command' = AfterJob(command, outcome)
  PROVE  command'.pc = "idle" \/ ToNextJob
  <1>1. HasFields(command) /\ command.at \in 1..Len(command.jobs)
    <2>1. HasFields(command) /\ command.pc # "idle"
      BY DEF ControlInv, CommandInv, OnServer
    <2> QED
      BY <2>1, JobAtHand
  <1>2. /\ command'.jobs = command.jobs /\ command'.fleet = command.fleet
        /\ \/ command'.pc = "idle"
           \/ /\ command'.keys = command.keys
              /\ command.at # Len(command.jobs) /\ command'.at = command.at + 1
              /\ command.fleet => command'.pc = "pipeline"
              /\ ~command.fleet => command'.pc = "remote"
    BY <1>1, NextJob
  <1>3. command.at # Len(command.jobs) => command.at < Len(command.jobs)
    <2>1. Len(command.jobs) \in Nat
      BY DEF ControlInv, CommandInv
    <2> QED
      BY <1>1, <2>1
  <1> QED
    BY <1>2, <1>3 DEF ToNextJob, SameJobs

(* Every step is one of these, or ends the command.                        *)
LEMMA JobSteps ==
  ASSUME ControlInv, [Next]_vars
  PROVE  \/ command'.pc = "idle" \/ Begins \/ InPipeline \/ AtTheJob
         \/ ToNextJob \/ Removing \/ UNCHANGED vars
  <1>1. HasFields(command)
    BY DEF ControlInv, CommandInv
  <1>2. CASE \E c \in situation.choices : Begin(c)
    <2>1. PICK c \in situation.choices : Begin(c)
      BY <1>2
    <2>2. c.op \in {"apply", "remove", "up", "down"}
      BY ChoicesAssumption DEF ControlInv
    <2>3. /\ command.pc = "idle" /\ command'.at = 1
          /\ command'.jobs = Selected(c) /\ command'.results = <<>>
          /\ command'.todo = Steps(c.op)
          /\ command'.pc = IF Selected(c) = <<>> THEN "idle" ELSE FirstPc(c.op)
      BY <2>1 DEF Begin, NoCommand
    <2>4. /\ command'.pc \notin OnServer
          /\ command'.pc = "remove" => c.op = "remove"
      BY <2>2, <2>3 DEF FirstPc, OnServer
    <2> QED
      BY <2>1, <2>3, <2>4 DEF Begins
  <1>3. CASE Pipeline
    <2> DEFINE c == [command EXCEPT !.keys = Append(@, KeyOf(Job))]
    <2>1. /\ command.pc = "pipeline"
          /\ \/ command' = AfterPipeline(c)
             \/ command' = AfterJob(c, "failed") /\ c.fleet
             \/ command' = Ended(c, "failed")
      BY <1>3 DEF Pipeline
    <2>2. /\ HasFields(c)
          /\ c.jobs = command.jobs /\ c.fleet = command.fleet /\ c.at = command.at
          /\ c.pc = "pipeline" /\ c.at \in DOMAIN c.jobs
          /\ c.jobs \in Seq(Range(c.jobs))
          /\ c.keys \in Seq(Range(c.keys)) /\ Len(c.keys) = c.at
          /\ c.keys[c.at] = KeyOf(Job)
          /\ \A i \in 1..(c.at - 1) : c.keys[i] = command.keys[i]
      BY <2>1, KeysAdded
    <2> HIDE DEF c
    <2>3. CASE command'.pc = "idle"
      BY <2>3
    <2>4. CASE command' = AfterPipeline(c) /\ command'.pc # "idle"
      <3>1. /\ command'.jobs = c.jobs /\ command'.fleet = c.fleet
            /\ \/ command' = Ended(c, "failed")
               \/ /\ command'.keys = c.keys
                  /\ \/ c.fleet /\ command'.pc = "remote" /\ command'.at = c.at
                     \/ /\ ~c.fleet /\ c.at < Len(c.jobs)
                        /\ command'.pc = c.pc /\ command'.at = c.at + 1
                     \/ /\ ~c.fleet /\ ~(c.at < Len(c.jobs))
                        /\ command'.pc = "remote" /\ command'.at = 1
        BY <2>2, <2>4, PipelineGoesOn
      <3>2. command' # Ended(c, "failed")
        BY <2>2, <2>4, EndedCommand
      <3>3. ~(c.at < Len(c.jobs)) => c.at = Len(c.jobs)
        BY <2>2
      <3> QED
        BY <1>3, <2>2, <3>1, <3>2, <3>3 DEF InPipeline, SameJobs
    <2>5. CASE command' = AfterJob(c, "failed") /\ c.fleet /\ command'.pc # "idle"
      <3>1. /\ command'.jobs = c.jobs /\ command'.fleet = c.fleet
            /\ command'.keys = c.keys /\ command'.at = c.at + 1
            /\ command'.pc = "pipeline"
        BY <2>2, <2>5, NextJob
      <3> QED
        BY <1>3, <2>2, <2>5, <3>1 DEF InPipeline, SameJobs
    <2>6. CASE command' = Ended(c, "failed")
      BY <2>2, <2>6, EndedCommand
    <2> QED
      BY <2>1, <2>3, <2>4, <2>5, <2>6
  <1>4. CASE Remote
    <2> DEFINE f == [StartedApply EXCEPT !.failed = TRUE]
    <2>1. /\ command.pc = "remote"
          /\ \/ command' = StartedApply
             \/ command' = f
             \/ command' = AfterJob(command, "failed")
      BY <1>4 DEF Remote
    <2>2. /\ HasFields(StartedApply) /\ StartedApply.jobs = command.jobs
          /\ StartedApply.fleet = command.fleet /\ StartedApply.at = command.at
          /\ StartedApply.keys = command.keys /\ StartedApply.pc = "local"
      BY <1>1, ApplyStarted
    <2>3. /\ f.jobs = command.jobs /\ f.fleet = command.fleet /\ f.at = command.at
          /\ f.keys = command.keys /\ f.pc = "local"
      BY <2>2 DEF HasFields, Fields
    <2> HIDE DEF f
    <2>4. CASE command' = StartedApply \/ command' = f
      BY <2>1, <2>2, <2>3, <2>4 DEF AtTheJob, SameJobs, OnServer
    <2>5. CASE command' = AfterJob(command, "failed")
      BY <2>1, <2>5, JobEnds DEF OnServer
    <2> QED
      BY <2>1, <2>4, <2>5
  <1>5. CASE LocalStep
    BY <1>5, LocalStepTakes DEF AtTheJob, SameJobs, OnServer, LocalStep
  <1>6. CASE LocalStepsDone
    <2>1. command.pc = "local"
      BY <1>6 DEF LocalStepsDone
    <2>2. CASE command' = AfterJob(command, "failed")
      BY <2>1, <2>2, JobEnds DEF OnServer
    <2> QED
      BY <1>6, <2>1, <2>2, LocalStepsEnd DEF AtTheJob, SameJobs, OnServer
  <1>7. CASE Record
    BY <1>7, RecordTakes DEF AtTheJob, SameJobs, OnServer, Record
  <1>8. CASE Recorded
    BY <1>8, JobEnds DEF Recorded, OnServer
  <1>9. CASE RemoveLocal \/ RemoveInventory
    <2>1. command.pc = "remove" /\ \E result : StepEnded(result)
      BY <1>9 DEF RemoveLocal, RemoveInventory
    <2> QED
      BY <1>1, <1>9, <2>1, StepEndTakes DEF Removing, SameJobs
  <1>10. CASE Removed \/ TunnelUp \/ TunnelDown \/ Crash \/ CrashInInit
    <2>1. \E report : command' = Ended(command, report)
      BY <1>10 DEF Removed, TunnelUp, TunnelDown, Crash, CrashInInit
    <2> QED
      BY <1>1, <2>1, EndedCommand
  <1> QED
    BY <1>2, <1>3, <1>4, <1>5, <1>6, <1>7, <1>8, <1>9, <1>10 DEF Next, Progress

(* The jobs of a command that are past the pipeline and may yet be applied. *)
Past(c) ==
  IF c.pc = "pipeline" /\ ~c.fleet THEN 1..(c.at - 1)
  ELSE IF c.pc \in OnServer THEN (IF c.fleet THEN {c.at} ELSE 1..Len(c.jobs))
  ELSE {}

(* A job that is applied is past the pipeline.                             *)
LEMMA AppliedIsPast ==
  ASSUME ControlInv, command.pc \in OnServer
  PROVE  command.at \in Past(command)
  BY JobAtHand DEF Past, OnServer

(* A job gets past the pipeline with its keys, and keeps them.             *)
LEMMA PastSteps ==
  ASSUME ControlInv, [Next]_vars, NEW i \in Past(command')
  PROVE  /\ command'.jobs = command.jobs /\ command'.pc # "idle"
         /\ i \in DOMAIN command.jobs
         /\ \/ /\ i \in Past(command) /\ command'.keys[i] = command.keys[i]
               /\ command.pc = "pipeline" => i # command.at
            \/ Pipeline /\ i = command.at /\ command'.keys[i] = KeyOf(Job)
  <1> DEFINE c == command
             d == command'
  <1>1. d.pc # "idle" /\ ~Begins /\ ~Removing
    BY DEF Past, OnServer, Begins, Removing
  <1>2. CASE InPipeline
    <2>1. c.pc = "pipeline" /\ Pipeline
      BY <1>2 DEF InPipeline, Pipeline
    <2>2. c.at \in 1..Len(c.jobs) /\ Len(c.jobs) \in Nat /\ DOMAIN c.jobs = 1..Len(c.jobs)
      BY <2>1, JobAtHand DEF ControlInv, CommandInv
    <2>3. /\ d.jobs = c.jobs /\ d.fleet = c.fleet /\ d.keys[c.at] = KeyOf(Job)
          /\ \A j \in 1..(c.at - 1) : d.keys[j] = c.keys[j]
      BY <1>2 DEF InPipeline, SameJobs
    <2>4. i = c.at \/ (i \in 1..(c.at - 1) /\ ~c.fleet)
      <3>1. CASE c.fleet
        <4>1. d.pc \in {"remote", "pipeline"} /\ (d.pc = "remote" => d.at = c.at)
          BY <1>2, <3>1 DEF InPipeline
        <4>2. d.fleet
          BY <2>3, <3>1
        <4>3. CASE d.pc = "remote"
          <5>1. Past(d) = {d.at}
            BY <4>2, <4>3 DEF Past, OnServer
          <5> QED
            BY <4>1, <4>3, <5>1
        <4>4. CASE d.pc = "pipeline"
          <5>1. Past(d) = {}
            BY <4>2, <4>4 DEF Past, OnServer
          <5> QED
            BY <5>1
        <4> QED
          BY <4>1, <4>3, <4>4
      <3>2. CASE ~c.fleet /\ d.pc = "pipeline" /\ d.at = c.at + 1
        BY <2>2, <2>3, <3>2 DEF Past
      <3>3. CASE ~c.fleet /\ d.pc = "remote" /\ c.at = Len(c.jobs)
        BY <2>2, <2>3, <3>3 DEF Past, OnServer
      <3> QED
        BY <1>2, <3>1, <3>2, <3>3 DEF InPipeline
    <2>5. i \in 1..(c.at - 1) => i \in DOMAIN c.jobs /\ i # c.at
      BY <2>2
    <2>6. i \in 1..(c.at - 1) /\ ~c.fleet => i \in Past(c)
      BY <2>1 DEF Past
    <2> QED
      BY <1>1, <2>1, <2>2, <2>3, <2>4, <2>5, <2>6
  <1>3. CASE AtTheJob
    <2>1. /\ c.pc \in OnServer /\ d.pc \in OnServer /\ d.keys = c.keys
          /\ d.jobs = c.jobs /\ d.fleet = c.fleet /\ d.at = c.at
      BY <1>3 DEF AtTheJob, SameJobs
    <2>2. c.at \in DOMAIN c.jobs /\ DOMAIN c.jobs = 1..Len(c.jobs)
      BY <2>1 DEF ControlInv, CommandInv, OnServer
    <2>3. Past(d) = Past(c) /\ i \in DOMAIN c.jobs /\ c.pc # "pipeline"
      BY <2>1, <2>2 DEF Past, OnServer
    <2> QED
      BY <1>1, <2>1, <2>3
  <1>4. CASE ToNextJob
    <2>1. /\ c.pc \in OnServer /\ d.keys = c.keys
          /\ d.jobs = c.jobs /\ d.fleet = c.fleet
          /\ c.fleet => d.pc = "pipeline"
          /\ ~c.fleet => d.pc = "remote"
      BY <1>4 DEF ToNextJob, SameJobs
    <2>2. DOMAIN c.jobs = 1..Len(c.jobs)
      BY DEF ControlInv, CommandInv
    <2>3. ~c.fleet /\ i \in 1..Len(c.jobs) /\ i \in Past(c) /\ c.pc # "pipeline"
      BY <2>1 DEF Past, OnServer
    <2> QED
      BY <1>1, <2>1, <2>2, <2>3
  <1>5. CASE UNCHANGED vars
    <2>1. d = c
      BY <1>5 DEF vars
    <2>2. c.pc # "idle" => c.at \in 1..Len(c.jobs) /\ DOMAIN c.jobs = 1..Len(c.jobs)
                            /\ Len(c.jobs) \in Nat
      BY JobAtHand DEF ControlInv, CommandInv
    <2>3. i \in Past(c) /\ c.pc # "idle"
      BY <1>1, <2>1
    <2>4. CASE c.pc = "pipeline"
      <3>1. i \in 1..(c.at - 1)
        BY <2>3, <2>4 DEF Past, OnServer
      <3>2. i \in DOMAIN c.jobs /\ i # c.at
        BY <2>2, <2>3, <3>1
      <3> QED
        BY <1>1, <2>1, <2>3, <3>2
    <2>5. CASE c.pc # "pipeline"
      <3>1. i = c.at \/ i \in 1..Len(c.jobs)
        BY <2>3, <2>5 DEF Past
      <3>2. i \in DOMAIN c.jobs
        BY <2>2, <2>3, <3>1
      <3> QED
        BY <1>1, <2>1, <2>3, <2>5, <3>2
    <2> QED
      BY <2>4, <2>5
  <1> QED
    BY <1>1, <1>2, <1>3, <1>4, <1>5, JobSteps

-----------------------------------------------------------------------------
(* Removals.  As long as none of its steps failed, what a removal is done  *)
(* with is gone, and what is gone stays so: neither is a host that was     *)
(* removed among those that are applied, nor does its tunnel find keys.    *)

TunnelGone(h) == Interface[h] \in stuck \/ active[Interface[h]] = NoKey

Decommissioned(h) ==
  \A r \in CurrentOf(rows["server"], h) : r.val.status = "decommissioned"

Done(step) == step \notin Range(command.todo)
Clean == "error" \notin Range(command.results)

RemovalInv ==
  command.pc = "remove" =>
    /\ Done("tunnel") => TunnelGone(Job.host) /\ Job.host \notin settled
    /\ Clean /\ Done("wireguard") => ~wg[Job.host].exists
    /\ Clean /\ Done("ssh") => Job.host \notin confD
    /\ Clean /\ Done("keys") => Job.host \notin keyPairs
    /\ Clean /\ Done("inventory") => Decommissioned(Job.host)

(* Jobs that are past the pipeline are about hosts that are not gone.      *)
UnderWay == \A i \in Past(command) : command.jobs[i].host \notin gone

(* Key pairs are made for hosts with a provider, and flat directories of   *)
(* such hosts have keys at most.                                           *)
ProvidedInv ==
  /\ \A h \in keyPairs : h.provider # ""
  /\ \A h \in Hosts : h.provider # "" /\ Unshared(h) => wg[Flat(h)].conf = NoKey

(* No host that shares its name with no other is another's directory.      *)
LEMMA OwnName ==
  ASSUME situation \in Situations, NEW h \in Hosts, Unshared(h), NEW g \in Hosts
  PROVE  /\ g.name = h.name => g = h
         /\ Flat(g) = h => g = h
         /\ Flat(g) = Flat(h) => g = h
         /\ Interface[g] = Interface[h] => g = h
  <1>1. Flat(g).name = g.name /\ Flat(h).name = h.name
    BY HostDirs
  <1>2. /\ g.name = h.name => g = h
        /\ Interface[g] = Interface[h] => g = h
    BY DEF Unshared
  <1> QED
    BY <1>1, <1>2

(* What tunnel up finds for such a host is its own, or nothing.            *)
LEMMA FoundOwn ==
  ASSUME situation \in Situations, StoreInv, ProvidedInv,
         NEW h \in Hosts, Unshared(h)
  PROVE  /\ Found(h).conf # NoKey => Found(h) = wg[h] /\ wg[h].exists
         /\ wg[h].exists /\ (h.provider = "" \/ ~wg[Flat(h)].exists) =>
              Found(h) = wg[h]
  <1> DEFINE rank(p) == CHOOSE i \in DOMAIN Providers : Providers[i] = p
             others == {d \in Dirs : d.name = h.name /\ d.provider # "" /\ wg[d].exists}
  <1>1. /\ h \in Dirs /\ Flat(h) \in Dirs
        /\ h.provider = "" <=> Flat(h) = h
    BY HostDirs
  <1>2. \A d \in Dirs : wg[d].exists = TRUE \/ wg[d] = NoDir
    BY DEF StoreInv, IsDir
  <1>3. NoDir.conf = NoKey /\ NoDir.exists = FALSE
    BY DEF NoDir
  <1>4. others \subseteq {h}
    <2>1. ASSUME NEW d \in others
          PROVE  d = h
      <3>1. PICK g \in Hosts : d = g \/ d = Flat(g)
        BY DEF Dirs
      <3>2. d # Flat(g)
        BY HostDirs
      <3> QED
        BY <3>1, <3>2, OwnName
    <2> QED
      BY <2>1
  <1>5. Found(h) = IF wg[Flat(h)].exists \/ others = {} THEN wg[Flat(h)]
                   ELSE wg[CHOOSE d \in others :
                             \A e \in others : rank(d.provider) <= rank(e.provider)]
    BY DEF Found
  <1>6. CASE h.provider = ""
    <2>1. h \notin others
      BY <1>6
    <2>2. others = {}
      BY <1>4, <2>1
    <2>3. Found(h) = wg[h]
      BY <1>1, <1>5, <1>6, <2>2
    <2> QED
      BY <1>1, <1>2, <1>3, <2>3
  <1>7. CASE h.provider # ""
    <2>1. wg[Flat(h)].conf = NoKey
      BY <1>7 DEF ProvidedInv
    <2>2. CASE wg[Flat(h)].exists \/ others = {}
      <3>1. Found(h).conf = NoKey
        BY <1>5, <2>1, <2>2
      <3>2. wg[h].exists => wg[Flat(h)].exists
        BY <1>1, <1>7, <2>2
      <3> QED
        BY <1>7, <3>1, <3>2
    <2>3. CASE ~wg[Flat(h)].exists /\ others # {}
      <3>1. others = {h}
        BY <1>4, <2>3
      <3>2. rank(h.provider) <= rank(h.provider)
        <4>1. \E i \in DOMAIN Providers : Providers[i] = h.provider
          BY <1>7, HostsAssumption DEF Hosts, Range
        <4>2. rank(h.provider) \in DOMAIN Providers
          BY <4>1
        <4>3. rank(h.provider) \in Nat
          <5>1. DOMAIN Providers \subseteq Nat
            <6>1. Providers \in Seq(Range(Providers))
              BY HostsAssumption
            <6>2. DOMAIN Providers = 1..Len(Providers) /\ Len(Providers) \in Nat
              BY <6>1
            <6> QED
              BY <6>2
          <5> QED
            BY <4>2, <5>1
        <4> HIDE DEF rank
        <4> QED
          BY <4>3
      <3>3. (CHOOSE d \in others :
               \A e \in others : rank(d.provider) <= rank(e.provider)) = h
        <4> HIDE DEF rank
        <4>1. \E d \in others :
                \A e \in others : rank(d.provider) <= rank(e.provider)
          BY <3>1, <3>2
        <4>2. (CHOOSE d \in others :
                 \A e \in others : rank(d.provider) <= rank(e.provider)) \in others
          BY <4>1
        <4> QED
          BY <3>1, <4>2
      <3>4. Found(h) = wg[h] /\ wg[h].exists
        BY <1>5, <2>3, <3>1, <3>3
      <3> QED
        BY <3>4
    <2> QED
      BY <2>2, <2>3
  <1> QED
    BY <1>6, <1>7

(* What is not in the rest of a sequence is not in it or is its head.      *)
LEMMA LeftAfterHead ==
  ASSUME NEW todo, todo \in Seq(Range(todo)), todo # <<>>, NEW step,
         step \notin Range(Tail(todo))
  PROVE  step \notin Range(todo) \/ step = Head(todo)
  <1>1. Len(todo) \in Nat /\ DOMAIN todo = 1..Len(todo)
    OBVIOUS
  <1>2. /\ Len(todo) >= 1 /\ Head(todo) = todo[1]
        /\ Tail(todo) \in Seq(Range(Tail(todo))) /\ Len(Tail(todo)) = Len(todo) - 1
        /\ \A i \in 1..(Len(todo) - 1) : Tail(todo)[i] = todo[i + 1]
    BY ShrinkingSequence
  <1>3. DOMAIN Tail(todo) = 1..(Len(todo) - 1)
    BY <1>1, <1>2
  <1>4. ASSUME NEW i \in 1..Len(todo), i # 1
        PROVE  todo[i] \in Range(Tail(todo))
    <2>1. i - 1 \in 1..(Len(todo) - 1) /\ (i - 1) + 1 = i
      BY <1>1, <1>4
    <2>2. Tail(todo)[i - 1] = todo[i]
      BY <1>2, <2>1
    <2> QED
      BY <1>3, <2>1, <2>2 DEF Range
  <1> QED
    BY <1>1, <1>2, <1>4 DEF Range

(* What a removal is done with after a step, it was done with before, or   *)
(* it is that step.                                                        *)
LEMMA LeftAfterStep ==
  ASSUME NEW todo \in RemoveTodos, todo # <<>>, NEW step,
         step \notin Range(Tail(todo))
  PROVE  step \notin Range(todo) \/ step = Head(todo)
  <1> DEFINE S == {"tunnel", "wireguard", "ssh", "keys", "inventory"}
  <1>1. todo \in Seq(S)
    <2>1. /\ <<"tunnel", "wireguard", "ssh", "keys", "inventory">> \in Seq(S)
          /\ <<"wireguard", "ssh", "keys", "inventory">> \in Seq(S)
      OBVIOUS
    <2>2. /\ <<"ssh", "keys", "inventory">> \in Seq(S)
          /\ <<"keys", "inventory">> \in Seq(S)
          /\ <<"inventory">> \in Seq(S) /\ <<>> \in Seq(S)
      OBVIOUS
    <2> HIDE DEF S
    <2> QED
      BY <2>1, <2>2 DEF RemoveTodos
  <1> QED
    BY <1>1, OwnSequence, LeftAfterHead

(* What a step of a removal on this machine does.                          *)
LEMMA RemoveLocalTakes ==
  ASSUME ControlInv, StoreInv, ActiveInv, RemoveLocal
  PROVE  LET h == Job.host
             step == Head(command.todo)
         IN  /\ h \notin settled' /\ rows' = rows
             /\ wg' = wg \/ ~wg'[h].exists
             /\ confD' \subseteq confD /\ keyPairs' \subseteq keyPairs
             /\ \/ Interface[h] \in stuck' \/ active'[Interface[h]] = NoKey
                \/ step # "tunnel" /\ active' = active /\ stuck' = stuck
             /\ stuck \subseteq stuck'
             /\ \E result :
                  /\ StepEnded(result)
                  /\ result # "error" =>
                       /\ step = "wireguard" => ~wg'[h].exists
                       /\ step = "ssh" => h \notin confD'
                       /\ step = "keys" /\ h.provider # "" => h \notin keyPairs'
  <1> DEFINE h == Job.host
             step == Head(command.todo)
             i == Interface[h]
  <1>1. command.pc = "remove" /\ h \in Hosts /\ situation \in Situations
    BY JobAtHand DEF RemoveLocal, ControlInv
  <1>2. h \in Dirs /\ i \in DOMAIN active
    <2>1. h \in Dirs
      BY <1>1, HostDirs
    <2>2. i \in {Interface[g] : g \in Hosts}
      BY <1>1
    <2> HIDE DEF h, i
    <2> QED
      BY <2>1, <2>2 DEF ActiveInv
  <1>3. settled' = settled \ {h} /\ rows' = rows
    BY DEF RemoveLocal, inventory
  <1>4. CASE step = "tunnel" /\ TearDown(h) /\ StepEnded("ok") /\ stuck' = stuck
    <2>1. active'[i] = NoKey /\ wg' = wg /\ confD' = confD /\ keyPairs' = keyPairs
      BY <1>2, <1>4 DEF TearDown
    <2> QED
      BY <1>3, <1>4, <2>1
  <1>5. CASE step # "tunnel" /\ RemoveDir(h, step) /\ StepEnded("ok") /\ stuck' = stuck
    <2>1. wg' = IF step = "wireguard" THEN [wg EXCEPT ![h] = NoDir] ELSE wg
      BY <1>5 DEF RemoveDir
    <2>2. /\ wg' = wg \/ ~wg'[h].exists
          /\ step = "wireguard" => ~wg'[h].exists
      BY <1>2, <2>1 DEF NoDir, StoreInv
    <2>3. /\ active' = active
          /\ confD' = IF step = "ssh" THEN confD \ {h} ELSE confD
          /\ keyPairs' = IF step = "keys" /\ h.provider # "" THEN keyPairs \ {h}
                         ELSE keyPairs
      BY <1>5 DEF RemoveDir
    <2> HIDE DEF h, step
    <2> QED
      BY <1>3, <1>5, <2>2, <2>3 DEF h, step
  <1>6. CASE /\ \/ StepEnded("error")
                \/ step = "tunnel" /\ (StepEnded("skipped") \/ StepEnded("ok"))
             /\ stuck' = IF step = "tunnel" THEN stuck \cup {i} ELSE stuck
             /\ UNCHANGED localState
    <2>1. wg' = wg /\ confD' = confD /\ keyPairs' = keyPairs /\ active' = active
      BY <1>6 DEF localState
    <2>2. CASE step = "tunnel"
      <3>1. i \in stuck' /\ stuck \subseteq stuck'
        BY <1>6, <2>2
      <3>2. PICK result : StepEnded(result)
        BY <1>6
      <3> QED
        BY <1>3, <2>1, <2>2, <3>1, <3>2
    <2>3. CASE step # "tunnel"
      <3>1. StepEnded("error") /\ stuck' = stuck
        BY <1>6, <2>3
      <3> QED
        BY <1>3, <2>1, <2>3, <3>1
    <2> QED
      BY <2>2, <2>3
  <1> QED
    BY <1>4, <1>5, <1>6 DEF RemoveLocal

(* What its last step does.                                                *)
LEMMA RemoveInventoryTakes ==
  ASSUME ControlInv, InventoryInv, RemoveInventory
  PROVE  /\ UNCHANGED <<localState, stuck, settled>>
         /\ Head(command.todo) = "inventory"
         /\ \E result :
              /\ StepEnded(result)
              /\ result # "error" =>
                   \A r \in CurrentOf(rows'["server"], Job.host) :
                     r.val.status = "decommissioned"
  <1> DEFINE h == Job.host
  <1>1. /\ UNCHANGED <<localState, stuck, settled>>
        /\ command.todo = <<"inventory">>
    BY DEF RemoveInventory
  <1>2. Head(command.todo) = "inventory"
    BY <1>1
  <1>3. CASE StepEnded("error")
    BY <1>1, <1>2, <1>3
  <1>4. CASE ServersFor(h) = {} /\ StepEnded("skipped") /\ UNCHANGED inventory
    <2>1. rows' = rows
      BY <1>4 DEF inventory
    <2>2. CurrentOf(rows["server"], h) = {}
      <3>1. {r \in View(rows["server"]) : r.key = h} = {}
        BY <1>4 DEF ServersFor
      <3> QED
        BY <3>1 DEF CurrentOf
    <2> QED
      BY <1>1, <1>2, <1>4, <2>1, <2>2
  <1>5. CASE /\ StepEnded("ok")
             /\ \E r \in ServersFor(h), now \in Now : Upsert(Decommission(h, r), now)
    <2>1. PICK q \in ServersFor(h), now \in Now : Upsert(Decommission(h, q), now)
      BY <1>5
    <2> DEFINE w == Decommission(h, q)
    <2>2. w.table = "server" /\ w.key = h /\ w.val.status = "decommissioned"
      BY DEF Decommission, Write, ServerRow
    <2>3. now \in Nat /\ now # Forever
      BY NowIsLater
    <2>4. "server" \in Tables /\ WellVersioned(rows["server"])
      BY TheTables DEF InventoryInv
    <2>5. rows'["server"] = Upserted(rows["server"], h, w.val, now)
      BY <2>1, <2>2, <2>4, WrittenTables
    <2>6. \A r \in CurrentOf(rows'["server"], h) : r.val = w.val
      BY <2>3, <2>4, <2>5, UpsertCurrent
    <2> QED
      BY <1>1, <1>2, <1>5, <2>2, <2>6
  <1> QED
    BY <1>3, <1>4, <1>5 DEF RemoveInventory

(* No step brings back what a removal is done with.                        *)
LEMMA RemovalInvStep ==
  ASSUME ControlInv, InventoryInv, StoreInv, ActiveInv, RemovalInv, ProvidedInv,
         [Next]_vars
  PROVE  RemovalInv'
  <1> SUFFICES ASSUME command'.pc = "remove"
               PROVE  RemovalInv'
    BY DEF RemovalInv
  <1>1. CASE \E c \in situation.choices : Begin(c)
    <2>1. command'.todo = <<"tunnel", "wireguard", "ssh", "keys", "inventory">>
      <3>1. PICK c \in situation.choices : Begin(c)
        BY <1>1
      <3>2. c.op \in {"apply", "remove", "up", "down"}
        BY ChoicesAssumption DEF ControlInv
      <3>3. command'.todo = Steps(c.op) /\ command'.pc \in {"idle", FirstPc(c.op)}
        BY <3>1 DEF Begin, NoCommand
      <3>4. c.op = "remove"
        BY <3>2, <3>3 DEF FirstPc
      <3> QED
        BY <3>3, <3>4 DEF Steps
    <2>2. \A step \in {"tunnel", "wireguard", "ssh", "keys", "inventory"} :
            step \in Range(command'.todo)
      BY <2>1 DEF Range
    <2> QED
      BY <2>2 DEF RemovalInv, Done
  <1>2. CASE RemoveLocal
    <2> DEFINE h == Job.host
               step == Head(command.todo)
    <2>1. /\ command.pc = "remove" /\ command.todo # <<>> /\ step # "inventory"
          /\ command.todo \in RemoveTodos /\ HasFields(command)
          /\ command.results \in Seq(Range(command.results))
      BY <1>2 DEF RemoveLocal, ControlInv, CommandInv
    <2>2. PICK result :
            /\ StepEnded(result)
            /\ result # "error" =>
                 /\ step = "wireguard" => ~wg'[h].exists
                 /\ step = "ssh" => h \notin confD'
                 /\ step = "keys" /\ h.provider # "" => h \notin keyPairs'
      BY <1>2, RemoveLocalTakes
    <2>3. /\ h \notin settled' /\ rows' = rows
          /\ wg' = wg \/ ~wg'[h].exists
          /\ confD' \subseteq confD /\ keyPairs' \subseteq keyPairs
          /\ \/ Interface[h] \in stuck' \/ active'[Interface[h]] = NoKey
             \/ step # "tunnel" /\ active' = active /\ stuck' = stuck
      BY <1>2, RemoveLocalTakes
    <2>4. /\ command'.jobs = command.jobs /\ command'.at = command.at
          /\ command'.todo = Tail(command.todo)
          /\ command'.results = Append(command.results, result)
      BY <2>1, <2>2, StepEndTakes
    <2>5. Clean' => Clean /\ result # "error"
      BY <2>1, <2>4, GrowingSequence DEF Clean
    <2>6. \A s : Done(s)' => Done(s) \/ s = step
      BY <2>1, <2>4, LeftAfterStep DEF Done
    <2>7. Job'.host = h
      BY <2>4 DEF Job
    <2>8. h.provider = "" => h \notin keyPairs
      BY DEF ProvidedInv
    <2>9. /\ Done("tunnel") => TunnelGone(h) /\ h \notin settled
          /\ Clean /\ Done("wireguard") => ~wg[h].exists
          /\ Clean /\ Done("ssh") => h \notin confD
          /\ Clean /\ Done("keys") => h \notin keyPairs
          /\ Clean /\ Done("inventory") => Decommissioned(h)
      BY <2>1 DEF RemovalInv
    <2> HIDE DEF h, step
    <2>10. Done("tunnel")' => Interface[h] \in stuck' \/ active'[Interface[h]] = NoKey
      BY <2>3, <2>6, <2>9 DEF TunnelGone
    <2>11. /\ Clean' /\ Done("wireguard")' => ~wg'[h].exists
           /\ Clean' /\ Done("ssh")' => h \notin confD'
           /\ Clean' /\ Done("keys")' => h \notin keyPairs'
      BY <2>2, <2>3, <2>5, <2>6, <2>8, <2>9
    <2>12. Clean' /\ Done("inventory")' =>
             \A r \in CurrentOf(rows'["server"], h) : r.val.status = "decommissioned"
      BY <2>1, <2>3, <2>5, <2>6, <2>9 DEF Decommissioned
    <2> QED
      BY <2>3, <2>7, <2>10, <2>11, <2>12 DEF RemovalInv, TunnelGone, Decommissioned
  <1>3. CASE RemoveInventory
    <2> DEFINE h == Job.host
    <2>1. /\ command.pc = "remove" /\ command.todo # <<>>
          /\ command.todo \in RemoveTodos /\ HasFields(command)
          /\ command.results \in Seq(Range(command.results))
      BY <1>3 DEF RemoveInventory, ControlInv, CommandInv
    <2>2. PICK result :
            /\ StepEnded(result)
            /\ result # "error" =>
                 \A r \in CurrentOf(rows'["server"], h) : r.val.status = "decommissioned"
      BY <1>3, RemoveInventoryTakes
    <2>3. /\ wg' = wg /\ confD' = confD /\ keyPairs' = keyPairs /\ active' = active
          /\ stuck' = stuck /\ settled' = settled /\ Head(command.todo) = "inventory"
      BY <1>3, RemoveInventoryTakes DEF localState
    <2>4. /\ command'.jobs = command.jobs /\ command'.at = command.at
          /\ command'.todo = Tail(command.todo)
          /\ command'.results = Append(command.results, result)
      BY <2>1, <2>2, StepEndTakes
    <2>5. Clean' => Clean /\ result # "error"
      BY <2>1, <2>4, GrowingSequence DEF Clean
    <2>6. \A s : Done(s)' => Done(s) \/ s = "inventory"
      BY <2>1, <2>3, <2>4, LeftAfterStep DEF Done
    <2>7. Job'.host = h
      BY <2>4 DEF Job
    <2>8. /\ Done("tunnel") => TunnelGone(h) /\ h \notin settled
          /\ Clean /\ Done("wireguard") => ~wg[h].exists
          /\ Clean /\ Done("ssh") => h \notin confD
          /\ Clean /\ Done("keys") => h \notin keyPairs
      BY <2>1 DEF RemovalInv
    <2> HIDE DEF h
    <2>9. /\ Done("tunnel")' => TunnelGone(h) /\ h \notin settled
          /\ Clean' /\ Done("wireguard")' => ~wg[h].exists
          /\ Clean' /\ Done("ssh")' => h \notin confD
          /\ Clean' /\ Done("keys")' => h \notin keyPairs
      BY <2>5, <2>6, <2>8
    <2> QED
      BY <2>2, <2>3, <2>5, <2>7, <2>9 DEF RemovalInv, TunnelGone, Decommissioned
  <1>4. CASE UNCHANGED vars
    BY <1>4 DEF vars, localState, inventory, RemovalInv, Done, Clean, TunnelGone,
                Decommissioned, Job
  <1> QED
    BY <1>1, <1>2, <1>3, <1>4, PcSteps

(* Hosts are gone by a removal, and back with the pipeline.                *)
LEMMA GoneSteps ==
  ASSUME [Next]_vars
  PROVE  \/ gone' = gone
         \/ Pipeline /\ gone' = gone \ {Job.host}
         \/ Removed /\ Clean /\ gone' = gone \cup {Job.host}
  BY DEF Next, Progress, Begin, Pipeline, Remote, LocalStep, LocalStepsDone,
         Record, Recorded, RemoveLocal, RemoveInventory, Removed, TunnelUp,
         TunnelDown, Crash, CrashInInit, vars, Clean

(* A removal leaves tunnels up, and tunnel down tears them down.           *)
LEMMA StuckSteps ==
  ASSUME [Next]_vars
  PROVE  \/ stuck \subseteq stuck'
         \/ /\ TunnelDown /\ TornDown(Job.host)
            /\ stuck' = stuck \ {Interface[Job.host]}
  <1>1. CASE RemoveLocal
    BY <1>1 DEF RemoveLocal
  <1>2. CASE TunnelDown
    BY <1>2 DEF TunnelDown, TearDown, TornDown
  <1>3. CASE \E c \in situation.choices : Begin(c)
    BY <1>3 DEF Begin
  <1>4. CASE Pipeline \/ Remote \/ LocalStep \/ LocalStepsDone \/ Record \/ Recorded
    BY <1>4 DEF Pipeline, Remote, LocalStep, LocalStepsDone, Record, Recorded
  <1>5. CASE RemoveInventory \/ Removed \/ TunnelUp \/ Crash \/ CrashInInit
    BY <1>5 DEF RemoveInventory, Removed, TunnelUp, Crash, CrashInInit
  <1>6. CASE UNCHANGED vars
    BY <1>6 DEF vars
  <1> QED
    BY <1>1, <1>2, <1>3, <1>4, <1>5, <1>6 DEF Next, Progress

(* Jobs that are past the pipeline stay about hosts that are not gone.     *)
LEMMA UnderWayStep ==
  ASSUME ControlInv, UnderWay, [Next]_vars
  PROVE  UnderWay'
  <1>1. ASSUME NEW i \in Past(command')
        PROVE  command'.jobs[i].host \notin gone'
    <2>1. /\ command'.jobs = command.jobs /\ command'.pc # "idle"
          /\ i \in Past(command) \/ (Pipeline /\ i = command.at)
      BY <1>1, PastSteps
    <2>2. ~Removed
      BY <2>1, EndedCommand DEF Removed, ControlInv, CommandInv
    <2>3. gone' \subseteq gone /\ (Pipeline => gone' = gone \ {Job.host})
      BY <2>2, GoneSteps DEF Pipeline
    <2> QED
      BY <2>1, <2>3 DEF UnderWay, Job
  <1> QED
    BY <1>1 DEF UnderWay

(* Flat directories of hosts with a provider get keys at most.             *)
LEMMA ProvidedInvStep ==
  ASSUME ControlInv, StoreInv, ProvidedInv, [Next]_vars
  PROVE  ProvidedInv'
  <1>1. situation' = situation /\ Hosts' = Hosts /\ situation \in Situations
    BY SituationStays DEF ControlInv
  <1>2. \A h \in keyPairs' : h.provider # ""
    BY FileSteps DEF ProvidedInv
  <1>3. ASSUME NEW h \in Hosts, h.provider # "", Unshared(h)
        PROVE  wg'[Flat(h)].conf = NoKey
    <2> DEFINE g == Job.host
    <2>1. Flat(h) \in Dirs /\ wg[Flat(h)].conf = NoKey
      BY <1>1, <1>3, HostDirs DEF ProvidedInv
    <2>2. command.pc # "idle" => g \in Hosts /\ Flat(h) # g
      <3>1. command.pc # "idle" => g \in Hosts
        BY JobAtHand
      <3>2. g \in Hosts /\ Flat(h) = g => FALSE
        <4>1. Flat(h).name = h.name /\ Flat(h) # h
          BY <1>1, <1>3, HostDirs
        <4> QED
          BY <1>1, <1>3, <4>1, OwnName
      <3> QED
        BY <3>1, <3>2
    <2>3. CASE wg' = wg
      BY <2>1, <2>3
    <2>4. CASE Pipeline /\ wg' = Persisted(g, KeyOf(Job))
      <3>1. g \in Hosts
        BY <2>2, <2>4 DEF Pipeline
      <3>2. /\ \A d \in Dirs : d # Flat(g) => wg'[d] = wg[d]
            /\ wg'[Flat(g)].conf = wg[Flat(g)].conf
        <4> HIDE DEF g
        <4>1. LET w == Persisted(g, KeyOf(Job))
              IN  /\ \A d \in Dirs : d # Flat(g) => w[d] = wg[d]
                  /\ w[Flat(g)] =
                       [exists |-> TRUE, key |-> WriteOnce(wg[Flat(g)].key, KeyOf(Job)),
                        conf |-> wg[Flat(g)].conf]
          BY <1>1, <3>1, PersistedDirs
        <4> QED
          BY <2>4, <4>1
      <3> QED
        BY <2>1, <3>2
    <2>5. CASE LocalStep /\ wg' = Saved(g, Key)
      <3>1. g \in Hosts /\ Flat(h) # g
        BY <2>2, <2>5 DEF LocalStep
      <3>2. \A d \in Dirs : d # g => wg'[d] = wg[d]
        <4> HIDE DEF g
        <4>1. LET w == Saved(g, Key)
              IN  /\ w = [d \in Dirs |-> w[d]]
                  /\ \A d \in Dirs : d # g => w[d] = wg[d]
                  /\ w[g] = [exists |-> TRUE, key |-> WriteOnce(wg[g].key, Key),
                             conf |-> Key]
          BY <1>1, <3>1, SavedDirs
        <4> QED
          BY <2>5, <4>1
      <3> QED
        BY <2>1, <3>1, <3>2
    <2>6. CASE RemoveLocal /\ DirRemoved(g)
      <3>1. Flat(h) # g
        BY <2>2, <2>6 DEF RemoveLocal
      <3> QED
        BY <2>1, <2>6, <3>1 DEF DirRemoved, StoreInv
    <2> QED
      BY <2>3, <2>4, <2>5, <2>6, StoreSteps
  <1> QED
    BY <1>1, <1>2, <1>3 DEF ProvidedInv, Unshared

(* What is gone of one host.                                               *)
IsGone(h) ==
  /\ h \notin keyPairs /\ h \notin confD
  /\ Unshared(h) => ~wg[h].exists /\ TunnelGone(h)
  /\ Decommissioned(h)

(* A host whose removal ends without an error is gone.                     *)
LEMMA RemovedHostIsGone ==
  ASSUME ControlInv, RemovalInv, Removed, Clean
  PROVE  IsGone(Job.host)'
  <1>1. /\ command.pc = "remove" /\ command.todo = <<>>
        /\ UNCHANGED <<situation, localState, inventory, stuck>>
    BY DEF Removed
  <1>2. \A step : Done(step)
    BY <1>1 DEF Done, Range
  <1>3. /\ TunnelGone(Job.host) /\ ~wg[Job.host].exists
        /\ Job.host \notin confD /\ Job.host \notin keyPairs
        /\ Decommissioned(Job.host)
    BY <1>1, <1>2 DEF RemovalInv
  <1>4. Job'.host = Job.host
    <2>1. \E report : command' = Ended(command, report)
      BY DEF Removed
    <2>2. command'.jobs = command.jobs /\ command'.at = command.at
      BY <2>1, EndedCommand DEF ControlInv, CommandInv
    <2> QED
      BY <2>2 DEF Job
  <1> QED
    BY <1>1, <1>3, <1>4 DEF IsGone, TunnelGone, Decommissioned, localState, inventory

(* A host that is gone stays so, but for the pipeline.                     *)
LEMMA GoneStaysGone ==
  ASSUME ControlInv, InventoryInv, RecordInv, StoreInv, ActiveInv, ProvidedInv,
         UnderWay, [Next]_vars,
         NEW h \in Hosts, h \in gone, IsGone(h), Pipeline => h # Job.host
  PROVE  IsGone(h)'
  <1> DEFINE g == Job.host
  <1>1. situation' = situation /\ Hosts' = Hosts /\ situation \in Situations
    BY SituationStays DEF ControlInv
  <1>2. command.pc \in OnServer => h # g
    BY AppliedIsPast DEF UnderWay, Job
  <1>3. h \notin keyPairs' /\ h \notin confD'
    <2>1. h \notin keyPairs'
      BY FileSteps DEF IsGone
    <2>2. LocalStep => h # g
      BY <1>2 DEF LocalStep, OnServer
    <2>3. h \notin confD'
      BY <2>2, FileSteps DEF IsGone
    <2> QED
      BY <2>1, <2>3
  <1>4. \A r \in CurrentOf(rows'["server"], h) : r.val.status = "decommissioned"
    <2>1. \A r \in CurrentOf(rows["server"], h) : r.val.status = "decommissioned"
      BY DEF IsGone, Decommissioned
    <2>2. CASE command.pc = "idle" \/ h # g
      BY <2>1, <2>2, ServersShown
    <2>3. CASE h = g /\ command.pc # "record"
      BY <2>1, <2>3, ServersShown
    <2> QED
      BY <1>2, <2>2, <2>3 DEF OnServer
  <1>5. ASSUME Unshared(h)
        PROVE  ~wg'[h].exists
    <2>1. ~wg[h].exists /\ h \in Dirs
      BY <1>1, <1>5, HostDirs DEF IsGone
    <2>2. CASE wg' = wg
      BY <2>1, <2>2
    <2>3. CASE Pipeline /\ wg' = Persisted(g, KeyOf(Job))
      <3>1. g \in Hosts /\ h # g
        BY <2>3, JobAtHand DEF Pipeline
      <3>2. h # Flat(g)
        BY <1>1, <1>5, <3>1, OwnName
      <3> HIDE DEF g
      <3>3. \A d \in Dirs : d # Flat(g) => wg'[d] = wg[d]
        BY <1>1, <2>3, <3>1, PersistedDirs
      <3> QED
        BY <2>1, <3>2, <3>3
    <2>4. CASE LocalStep /\ wg' = Saved(g, Key)
      <3>1. g \in Hosts /\ h # g
        BY <1>2, <2>4, JobAtHand DEF LocalStep, OnServer
      <3> HIDE DEF g
      <3>2. \A d \in Dirs : d # g => wg'[d] = wg[d]
        <4>1. LET w == Saved(g, Key)
              IN  /\ w = [d \in Dirs |-> w[d]]
                  /\ \A d \in Dirs : d # g => w[d] = wg[d]
                  /\ w[g] = [exists |-> TRUE, key |-> WriteOnce(wg[g].key, Key),
                             conf |-> Key]
          BY <1>1, <3>1, SavedDirs
        <4> QED
          BY <2>4, <4>1
      <3> QED
        BY <2>1, <3>1, <3>2
    <2>5. CASE DirRemoved(g)
      BY <2>1, <2>5 DEF DirRemoved, StoreInv, NoDir
    <2> QED
      BY <2>2, <2>3, <2>4, <2>5, StoreSteps
  <1>6. ASSUME Unshared(h)
        PROVE  Interface[h] \in stuck' \/ active'[Interface[h]] = NoKey
    <2>1. Interface[h] \in stuck \/ active[Interface[h]] = NoKey
      BY <1>6 DEF IsGone, TunnelGone
    <2>2. CASE command.pc = "idle"
      <3>1. active' = active /\ stuck \subseteq stuck'
        BY <2>2, FileSteps, StuckSteps DEF RemoveLocal, TunnelDown, TunnelUp
      <3> QED
        BY <2>1, <3>1
    <2>3. CASE command.pc # "idle" /\ h # g
      <3>1. Interface[g] # Interface[h]
        BY <1>1, <1>6, <2>3, JobAtHand, OwnName
      <3>2. active'[Interface[h]] = active[Interface[h]]
        BY <3>1, ActiveSteps
      <3>3. Interface[h] \in stuck => Interface[h] \in stuck'
        BY <3>1, StuckSteps
      <3> QED
        BY <2>1, <3>2, <3>3
    <2>4. CASE command.pc # "idle" /\ h = g
      <3>1. Found(h).conf = NoKey
        <4>1. ~wg[h].exists
          BY <1>6 DEF IsGone
        <4> QED
          BY <1>1, <1>6, <4>1, FoundOwn
      <3>2. active' = active \/ TornDown(h)
        BY <2>4, <3>1, FileSteps DEF BroughtUp
      <3>3. TornDown(h) => active'[Interface[h]] = NoKey
        BY <2>4, ActiveSteps
      <3>4. stuck \subseteq stuck' \/ TornDown(h)
        BY <2>4, StuckSteps
      <3> QED
        BY <2>1, <3>2, <3>3, <3>4
    <2> QED
      BY <2>2, <2>3, <2>4
  <1>7. Unshared(h)' => Unshared(h)
    BY <1>1 DEF Unshared
  <1> QED
    BY <1>3, <1>4, <1>5, <1>6, <1>7 DEF IsGone, TunnelGone, Decommissioned

GoneInv == RemovalInv /\ UnderWay /\ ProvidedInv /\ \A h \in gone : IsGone(h)

(* All of it at once.                                                      *)
LEMMA GoneStay == Spec => []GoneInv
  <1>1. Init => GoneInv
    <2> SUFFICES ASSUME Init
                 PROVE  GoneInv
      OBVIOUS
    <2>1. command.pc = "idle" /\ gone = {} /\ keyPairs = {}
      BY DEF Init, NoCommand
    <2>2. \A d \in Dirs : wg[d] = NoDir
      BY DEF Init
    <2>3. NoDir.conf = NoKey
      BY DEF NoDir
    <2>4. \A h \in Hosts : wg[Flat(h)].conf = NoKey
      <3>1. \A h \in Hosts : Flat(h) \in Dirs
        BY DEF Dirs
      <3> QED
        BY <2>2, <2>3, <3>1
    <2> QED
      BY <2>1, <2>4 DEF GoneInv, RemovalInv, UnderWay, Past, ProvidedInv, OnServer
  <1>2. ASSUME TypeInv, RecordInv, ActiveInv, GoneInv, [Next]_vars
        PROVE  GoneInv'
    <2>1. /\ ControlInv /\ InventoryInv /\ StoreInv /\ gone \subseteq Hosts
          /\ RemovalInv /\ UnderWay /\ ProvidedInv
      BY <1>2 DEF TypeInv, FilesInv, GoneInv
    <2>2. RemovalInv' /\ UnderWay' /\ ProvidedInv'
      BY <1>2, <2>1, RemovalInvStep, UnderWayStep, ProvidedInvStep
    <2>3. ASSUME NEW h \in gone', Removed, Clean, h = Job.host
          PROVE  IsGone(h)'
      <3>1. Job'.host = Job.host
        <4>1. \E report : command' = Ended(command, report)
          BY <2>3 DEF Removed
        <4>2. command'.jobs = command.jobs /\ command'.at = command.at
          BY <2>1, <4>1, EndedCommand DEF ControlInv, CommandInv
        <4> QED
          BY <4>2 DEF Job
      <3>2. IsGone(Job.host)'
        BY <2>1, <2>3, RemovedHostIsGone
      <3> QED
        BY <2>3, <3>1, <3>2 DEF IsGone, TunnelGone, Decommissioned, Unshared
    <2>4. ASSUME NEW h \in gone', h \in gone, Pipeline => h # Job.host
          PROVE  IsGone(h)'
      BY <1>2, <2>1, <2>4, GoneStaysGone DEF GoneInv
    <2>5. \A h \in gone' : \/ Removed /\ Clean /\ h = Job.host
                           \/ h \in gone /\ (Pipeline => h # Job.host)
      BY GoneSteps, <1>2 DEF Pipeline, Removed
    <2>6. \A h \in gone' : IsGone(h)'
      BY <2>3, <2>4, <2>5
    <2> QED
      BY <2>2, <2>6 DEF GoneInv
  <1>3. TypeInv /\ RecordInv /\ ActiveInv /\ GoneInv /\ [Next]_vars => GoneInv'
    BY <1>2
  <1> QED
    BY <1>1, <1>3, LocalStays, PTL DEF Spec, LocalInv

(* After a removal without an error nothing is left of the host: no keys,  *)
(* no fragment, no directory, no tunnel that it could tear down, nothing   *)
(* in the inventory but that it is decommissioned; and so it stays until   *)
(* it is applied, whatever is done to others, fails or is interrupted.     *)
THEOREM RemovedAreGone == Spec => []RemovedIsGone
  <1>1. GoneInv => RemovedIsGone
    BY DEF GoneInv, IsGone, TunnelGone, Decommissioned, RemovedIsGone
  <1> QED
    BY <1>1, GoneStay, PTL

-----------------------------------------------------------------------------
(* Tunnels.  A host that shares neither name nor interface with another,   *)
(* and that no command bootstraps twice, has one pair of keys: those that  *)
(* are saved, those its configuration is of and those that a job brings to *)
(* its server are the same.                                                *)

Own(h) == Unshared(h) /\ Once(h)

(* What the elements of a finite set are mapped to is finite.              *)
LEMMA FiniteImage ==
  ASSUME NEW S, IsFiniteSet(S), NEW T, NEW f \in [S -> T],
         \A t \in T : \E x \in S : f[x] = t
  PROVE  IsFiniteSet(T)
  <1>1. f \in Surjection(S, T)
    BY DEF Surjection
  <1> QED
    BY <1>1, FS_Surjection

(* There is a key that is nowhere yet.                                     *)
LEMMA FreshKeyIsFresh ==
  ASSUME ControlInv, ActiveInv
  PROVE  FreshKey # NoKey
  <1> DEFINE I == DOMAIN active
             K == DOMAIN command.keys
             A == {deployed[h] : h \in Hosts}
             B == {wg[d].key : d \in Dirs}
             C == {active[i] : i \in I}
             D == {command.keys[i] : i \in K}
             used == A \cup B \cup C \cup D
             n == Cardinality(used)
  <1>1. IsFiniteSet(Hosts)
    BY HostsAssumption DEF ControlInv, Hosts
  <1>2. IsFiniteSet(Dirs)
    <2> DEFINE T == {Flat(h) : h \in Hosts}
               f == [h \in Hosts |-> Flat(h)]
    <2>1. f \in [Hosts -> T] /\ \A t \in T : \E h \in Hosts : f[h] = t
      OBVIOUS
    <2> HIDE DEF f, T
    <2>2. IsFiniteSet(T)
      BY <1>1, <2>1, FiniteImage
    <2> QED
      BY <1>1, <2>2, FS_Union DEF Dirs, T
  <1>3. IsFiniteSet(I)
    <2> DEFINE f == [h \in Hosts |-> Interface[h]]
    <2>1. I = {Interface[h] : h \in Hosts}
      BY DEF ActiveInv
    <2>2. f \in [Hosts -> I] /\ \A i \in I : \E h \in Hosts : f[h] = i
      BY <2>1
    <2> HIDE DEF f, I
    <2> QED
      BY <1>1, <2>2, FiniteImage
  <1>4. IsFiniteSet(K)
    <2>1. K = 1..Len(command.keys) /\ Len(command.keys) \in Nat
      BY DEF ControlInv, CommandInv, KeysInPlace
    <2> QED
      BY <2>1, FS_Interval
  <1> HIDE DEF I, K
  <1>5. IsFiniteSet(A)
    <2> DEFINE f == [h \in Hosts |-> deployed[h]]
    <2>1. f \in [Hosts -> A] /\ \A t \in A : \E h \in Hosts : f[h] = t
      OBVIOUS
    <2> HIDE DEF f, A
    <2> QED
      BY <1>1, <2>1, FiniteImage
  <1>6. IsFiniteSet(B)
    <2> DEFINE f == [d \in Dirs |-> wg[d].key]
    <2>1. f \in [Dirs -> B] /\ \A t \in B : \E d \in Dirs : f[d] = t
      OBVIOUS
    <2> HIDE DEF f, B
    <2> QED
      BY <1>2, <2>1, FiniteImage
  <1>7. IsFiniteSet(C)
    <2> DEFINE f == [i \in I |-> active[i]]
    <2>1. f \in [I -> C] /\ \A t \in C : \E i \in I : f[i] = t
      OBVIOUS
    <2> HIDE DEF f, C
    <2> QED
      BY <1>3, <2>1, FiniteImage
  <1>8. IsFiniteSet(D)
    <2> DEFINE f == [i \in K |-> command.keys[i]]
    <2>1. f \in [K -> D] /\ \A t \in D : \E i \in K : f[i] = t
      OBVIOUS
    <2> HIDE DEF f, D
    <2> QED
      BY <1>4, <2>1, FiniteImage
  <1>9. FreshKey = CHOOSE k \in 1..(n + 1) : k \notin used
    BY DEF FreshKey, I, K
  <1> HIDE DEF A, B, C, D
  <1>10. IsFiniteSet(used)
    BY <1>5, <1>6, <1>7, <1>8, FS_Union
  <1> HIDE DEF used
  <1>11. n \in Nat
    BY <1>10, FS_CardinalityType
  <1>12. \E k \in 1..(n + 1) : k \notin used
    <2>1. CASE 1..(n + 1) \subseteq used
      <3>1. 1 \in Int /\ n + 1 \in Int /\ ~(1 > n + 1) /\ (n + 1) - 1 + 1 = n + 1
        BY <1>11
      <3> HIDE DEF n
      <3>2. Cardinality(1..(n + 1)) = n + 1
        BY <3>1, FS_Interval
      <3>3. Cardinality(1..(n + 1)) <= n
        BY <1>10, <2>1, FS_Subset DEF n
      <3> QED
        BY <1>11, <3>2, <3>3
    <2> QED
      BY <2>1
  <1>13. FreshKey \in 1..(n + 1)
    BY <1>9, <1>12
  <1> HIDE DEF n
  <1> QED
    BY <1>11, <1>13 DEF NoKey

(* A job's keys are those that are saved, or fresh ones.                   *)
LEMMA KeysOfJob ==
  ASSUME ControlInv, ActiveInv, NEW job, job.kind = "bootstrap"
  PROVE  /\ KeyOf(job) # NoKey
         /\ wg[job.host].key \in {NoKey, KeyOf(job)}
  <1>1. KeyOf(job) = IF wg[job.host].key # NoKey THEN wg[job.host].key ELSE FreshKey
    <2> DEFINE h == job.host
    <2>1. StoreOf(h)[DirName(TRUE)] = wg[h]
      BY DEF StoreOf, DirName
    <2> HIDE DEF h
    <2> QED
      BY <2>1 DEF KeyOf, KeyFor, h
  <1> QED
    BY <1>1, FreshKeyIsFresh

(* What a step makes of such a host's directory.                           *)
LEMMA OwnDirSteps ==
  ASSUME ControlInv, StoreInv, [Next]_vars, NEW h \in Hosts, Unshared(h)
  PROVE  \/ wg'[h] = wg[h]
         \/ /\ Pipeline /\ Job.kind = "bootstrap" /\ Job.host = h
            /\ wg'[h] = [exists |-> TRUE, key |-> WriteOnce(wg[h].key, KeyOf(Job)),
                         conf |-> wg[h].conf]
         \/ /\ LocalStep /\ Job.kind = "bootstrap" /\ Job.host = h
            /\ Head(command.todo) = "wireguard"
            /\ wg'[h] = [exists |-> TRUE, key |-> WriteOnce(wg[h].key, Key),
                         conf |-> Key]
         \/ /\ RemoveLocal /\ Job.host = h /\ Head(command.todo) = "wireguard"
            /\ wg'[h] = NoDir
  <1> DEFINE g == Job.host
  <1>1. situation \in Situations /\ h \in Dirs
    BY HostDirs DEF ControlInv
  <1>2. CASE Pipeline /\ Job.kind = "bootstrap" /\ wg' = Persisted(g, KeyOf(Job))
    <2>1. g \in Hosts
      BY <1>2, JobAtHand DEF Pipeline
    <2>2. Flat(g) = h => g = h
      BY <1>1, <2>1, OwnName
    <2> HIDE DEF g
    <2>3. /\ \A d \in Dirs : d # Flat(g) => wg'[d] = wg[d]
          /\ wg'[Flat(g)] =
               [exists |-> TRUE, key |-> WriteOnce(wg[Flat(g)].key, KeyOf(Job)),
                conf |-> wg[Flat(g)].conf]
      BY <1>1, <1>2, <2>1, PersistedDirs
    <2> QED
      BY <1>1, <1>2, <2>2, <2>3 DEF g
  <1>3. CASE /\ LocalStep /\ Job.kind = "bootstrap" /\ Head(command.todo) = "wireguard"
             /\ wg' = Saved(g, Key)
    <2>1. g \in Hosts
      BY <1>3, JobAtHand DEF LocalStep
    <2> HIDE DEF g
    <2>2. /\ \A d \in Dirs : d # g => wg'[d] = wg[d]
          /\ wg'[g] = [exists |-> TRUE, key |-> WriteOnce(wg[g].key, Key), conf |-> Key]
      BY <1>1, <1>3, <2>1, SavedDirs
    <2> QED
      BY <1>1, <1>3, <2>2 DEF g
  <1>4. CASE RemoveLocal /\ Head(command.todo) = "wireguard" /\ DirRemoved(g)
    <2>1. wg'[h] = IF h = g THEN NoDir ELSE wg[h]
      BY <1>1, <1>4 DEF DirRemoved, StoreInv
    <2> QED
      BY <1>4, <2>1
  <1> QED
    BY <1>2, <1>3, <1>4, StoreSteps

OnceInv ==
  command.pc # "idle" =>
    \A h \in Hosts : Own(h) =>
      \A i, j \in DOMAIN command.jobs :
        /\ command.jobs[i].kind = "bootstrap" /\ command.jobs[i].host = h
        /\ command.jobs[j].kind = "bootstrap" /\ command.jobs[j].host = h
        => i = j

OwnKeysInv ==
  /\ \A h \in Hosts : Own(h) => wg[h].conf \in {NoKey, wg[h].key}
  /\ \A i \in Past(command) :
       LET job == command.jobs[i]
       IN  job.kind = "bootstrap" /\ Own(job.host) =>
             /\ wg[job.host].key \in {NoKey, command.keys[i]}
             /\ command.keys[i] # NoKey

(* Hosts stay their own.                                                   *)
LEMMA OwnStays ==
  ASSUME [Next]_vars, NEW h
  PROVE  Own(h)' <=> Own(h)
  BY SituationStays DEF Own, Unshared, Once

(* No command that runs bootstraps such a host twice.                      *)
LEMMA OnceInvStep ==
  ASSUME ControlInv, OnceInv, [Next]_vars
  PROVE  OnceInv'
  <1> SUFFICES ASSUME command'.pc # "idle"
               PROVE  OnceInv'
    BY DEF OnceInv
  <1>1. Hosts' = Hosts /\ \A h : Own(h)' <=> Own(h)
    BY SituationStays, OwnStays
  <1>2. CASE Begins
    <2>1. PICK c \in situation.choices : command'.jobs = Selected(c)
      BY <1>2 DEF Begins
    <2> QED
      BY <1>1, <2>1 DEF OnceInv, Own, Once
  <1>3. CASE command.pc # "idle" /\ command'.jobs = command.jobs
    BY <1>1, <1>3 DEF OnceInv
  <1>4. Begins \/ (command.pc # "idle" /\ command'.jobs = command.jobs)
    <2>1. \/ Begins \/ InPipeline \/ AtTheJob \/ ToNextJob \/ Removing \/ UNCHANGED vars
      BY JobSteps
    <2> QED
      BY <2>1 DEF InPipeline, AtTheJob, ToNextJob, Removing, SameJobs, Pipeline,
                  OnServer, vars
  <1> QED
    BY <1>2, <1>3, <1>4

(* Keys that are saved, in use and at hand stay the same.                  *)
LEMMA OwnKeysInvStep ==
  ASSUME ControlInv, StoreInv, ActiveInv, OnceInv, OwnKeysInv, [Next]_vars
  PROVE  OwnKeysInv'
  <1>1. Hosts' = Hosts /\ situation \in Situations /\ \A h : Own(h)' <=> Own(h)
    BY SituationStays, OwnStays DEF ControlInv
  <1>2. NoDir.key = NoKey /\ NoDir.conf = NoKey
    BY DEF NoDir
  <1>3. ASSUME NEW h \in Hosts, Own(h), command.pc \in OnServer,
               Job.kind = "bootstrap", Job.host = h
        PROVE  wg[h].key \in {NoKey, Key} /\ Key # NoKey
    BY <1>3, AppliedIsPast DEF OwnKeysInv, Job, Key
  <1>4. ASSUME NEW h \in Hosts, Own(h)
        PROVE  wg'[h].conf \in {NoKey, wg'[h].key}
    <2>1. wg[h].conf \in {NoKey, wg[h].key} /\ Unshared(h)
      BY <1>4 DEF OwnKeysInv, Own
    <2>2. CASE wg'[h] = wg[h]
      BY <2>1, <2>2
    <2>3. CASE wg'[h] = [exists |-> TRUE, key |-> WriteOnce(wg[h].key, KeyOf(Job)),
                         conf |-> wg[h].conf]
      BY <2>1, <2>3 DEF WriteOnce
    <2>4. CASE /\ LocalStep /\ Job.kind = "bootstrap" /\ Job.host = h
               /\ wg'[h] = [exists |-> TRUE, key |-> WriteOnce(wg[h].key, Key),
                            conf |-> Key]
      <3>1. wg[h].key \in {NoKey, Key}
        BY <1>3, <1>4, <2>4 DEF LocalStep, OnServer
      <3> QED
        BY <2>4, <3>1 DEF WriteOnce
    <2>5. CASE wg'[h] = NoDir
      BY <1>2, <2>5
    <2> QED
      BY <2>1, <2>2, <2>3, <2>4, <2>5, OwnDirSteps
  <1>5. ASSUME NEW i \in Past(command'), NEW job, job = command'.jobs[i],
               job.kind = "bootstrap", Own(job.host)
        PROVE  /\ wg'[job.host].key \in {NoKey, command'.keys[i]}
               /\ command'.keys[i] # NoKey
    <2> DEFINE h == job.host
    <2>1. /\ job = command.jobs[i] /\ i \in DOMAIN command.jobs
          /\ \/ /\ i \in Past(command) /\ command'.keys[i] = command.keys[i]
                /\ command.pc = "pipeline" => i # command.at
             \/ Pipeline /\ i = command.at /\ command'.keys[i] = KeyOf(Job)
      BY <1>5, PastSteps
    <2>2. h \in Hosts /\ Unshared(h)
      BY <1>5, <2>1 DEF ControlInv, CommandInv, IsJob, Own
    <2>3. /\ command.pc # "idle" /\ command.at \in DOMAIN command.jobs
             /\ Job.kind = "bootstrap" /\ Job.host = h => i = command.at
      BY <1>5, <2>1, <2>2 DEF OnceInv, Job
    <2>4. CASE Pipeline /\ i = command.at /\ command'.keys[i] = KeyOf(Job)
      <3>1. job = Job
        BY <2>1, <2>4 DEF Job
      <3>2. KeyOf(Job) # NoKey /\ wg[h].key \in {NoKey, KeyOf(Job)}
        BY <1>5, <3>1, KeysOfJob
      <3>3. \/ wg'[h] = wg[h] \/ wg'[h] = NoDir
            \/ wg'[h] = [exists |-> TRUE, key |-> WriteOnce(wg[h].key, KeyOf(Job)),
                         conf |-> wg[h].conf]
        BY <2>2, <2>4, OwnDirSteps DEF Pipeline, LocalStep
      <3> QED
        BY <1>2, <2>4, <3>2, <3>3 DEF WriteOnce
    <2>5. CASE /\ i \in Past(command) /\ command'.keys[i] = command.keys[i]
               /\ command.pc = "pipeline" => i # command.at
      <3>1. wg[h].key \in {NoKey, command.keys[i]} /\ command.keys[i] # NoKey
        BY <1>5, <2>1, <2>5 DEF OwnKeysInv
      <3>2. command.pc # "idle" => command.at \in DOMAIN command.jobs
        BY JobAtHand
      <3>3. ~(Pipeline /\ Job.kind = "bootstrap" /\ Job.host = h)
        BY <2>3, <2>5, <3>2 DEF Pipeline
      <3>4. CASE wg'[h] = wg[h] \/ wg'[h] = NoDir
        BY <1>2, <2>5, <3>1, <3>4
      <3>5. CASE /\ LocalStep /\ Job.kind = "bootstrap" /\ Job.host = h
                 /\ wg'[h] = [exists |-> TRUE, key |-> WriteOnce(wg[h].key, Key),
                              conf |-> Key]
        <4>1. i = command.at
          BY <2>3, <3>2, <3>5 DEF LocalStep
        <4>2. Key = command.keys[i]
          BY <4>1 DEF Key
        <4> QED
          BY <2>5, <3>1, <3>5, <4>2 DEF WriteOnce
      <3> QED
        BY <2>2, <3>3, <3>4, <3>5, OwnDirSteps
    <2> QED
      BY <2>1, <2>4, <2>5
  <1> QED
    BY <1>1, <1>4, <1>5 DEF OwnKeysInv

-----------------------------------------------------------------------------
(* Bootstraps that succeed.                                                *)

(* What a job has of its bootstrap, once its local steps have succeeded.   *)
Taken(step) == command.pc = "record" \/ step \notin Range(command.todo)

SettlingInv ==
  command.pc \in {"local", "record"} /\ Job.kind = "bootstrap" =>
    /\ Job.host \notin settled
    /\ ~command.failed => deployed[Job.host] = Key
    /\ command.pc = "record" => ~command.failed
    /\ ~command.warned /\ Taken("ssh") => Job.host \in confD
    /\ ~command.warned /\ Taken("wireguard") /\ Own(Job.host) =>
         wg[Job.host].exists /\ wg[Job.host].conf = Key /\ wg[Job.host].key = Key

DeployedInv == deployed = [h \in Hosts |-> deployed[h]]

(* A host that is settled has one pair of keys, that of its server.        *)
HasItsKeys(h) ==
  /\ h \in confD /\ wg[h].exists
  /\ wg[h].conf = deployed[h] /\ wg[h].key = deployed[h] /\ deployed[h] # NoKey

SettledInv == SettlingInv /\ DeployedInv /\ \A h \in settled : Own(h) => HasItsKeys(h)

(* Servers get their keys from a bootstrap, which unsettles its host.      *)
LEMMA DeployedSteps ==
  ASSUME [Next]_vars
  PROVE  \/ deployed' = deployed
         \/ /\ Remote /\ Job.kind = "bootstrap"
            /\ deployed' = [deployed EXCEPT ![Job.host] = Key]
  <1>1. CASE Remote
    BY <1>1 DEF Remote, Applied, servers
  <1>2. CASE \E c \in situation.choices : Begin(c)
    BY <1>2 DEF Begin, servers
  <1>3. CASE Pipeline \/ LocalStep \/ LocalStepsDone \/ Record \/ Recorded
    BY <1>3 DEF Pipeline, LocalStep, LocalStepsDone, Record, Recorded, servers
  <1>4. CASE RemoveLocal \/ RemoveInventory \/ Removed \/ TunnelUp \/ TunnelDown
    BY <1>4 DEF RemoveLocal, RemoveInventory, Removed, TunnelUp, TunnelDown, servers
  <1>5. CASE Crash \/ CrashInInit \/ UNCHANGED vars
    BY <1>5 DEF Crash, CrashInInit, vars, servers
  <1> QED
    BY <1>1, <1>2, <1>3, <1>4, <1>5 DEF Next, Progress

(* Hosts are settled by a bootstrap without a warning, until the next one  *)
(* or their removal.                                                       *)
LEMMA SettledSteps ==
  ASSUME [Next]_vars
  PROVE  /\ \/ settled' \subseteq settled
            \/ /\ Recorded /\ Job.kind = "bootstrap" /\ ~command.warned
               /\ settled' = settled \cup {Job.host}
         /\ RemoveLocal \/ (Remote /\ Job.kind = "bootstrap") =>
              Job.host \notin settled'
  <1>1. CASE Remote
    BY <1>1 DEF Remote, RemoveLocal
  <1>2. CASE Recorded
    BY <1>2 DEF Recorded, RemoveLocal, Remote
  <1>3. CASE RemoveLocal
    BY <1>3 DEF RemoveLocal
  <1>4. CASE \E c \in situation.choices : Begin(c)
    BY <1>4 DEF Begin, RemoveLocal, Remote
  <1>5. CASE Pipeline \/ LocalStep \/ LocalStepsDone \/ Record
    BY <1>5 DEF Pipeline, LocalStep, LocalStepsDone, Record, RemoveLocal, Remote
  <1>6. CASE RemoveInventory /\ ~RemoveLocal
    BY <1>6 DEF RemoveInventory, Remote
  <1>7. CASE Removed \/ TunnelUp \/ TunnelDown
    BY <1>7 DEF Removed, TunnelUp, TunnelDown, RemoveLocal, Remote
  <1>8. CASE (Crash \/ CrashInInit) /\ ~RemoveLocal /\ ~Remote
    BY <1>8 DEF Crash, CrashInInit
  <1>9. CASE UNCHANGED vars /\ ~RemoveLocal /\ ~Remote
    BY <1>9 DEF vars
  <1> QED
    BY <1>1, <1>2, <1>3, <1>4, <1>5, <1>6, <1>7, <1>8, <1>9 DEF Next, Progress

(* What an apply on the server leads to, if not to the end of its job.     *)
LEMMA RemoteTakes ==
  ASSUME ControlInv, Remote, command'.pc = "local"
  PROVE  /\ command'.jobs = command.jobs /\ command'.at = command.at
         /\ command'.keys = command.keys /\ command'.todo = LocalSteps(Job)
         /\ ~command'.failed => Applied(Job)
  <1> DEFINE f == [StartedApply EXCEPT !.failed = TRUE]
  <1>1. HasFields(command)
    BY DEF ControlInv, CommandInv
  <1>2. /\ HasFields(StartedApply)
        /\ StartedApply.jobs = command.jobs /\ StartedApply.at = command.at
        /\ StartedApply.keys = command.keys /\ StartedApply.todo = LocalSteps(Job)
    BY <1>1, ApplyStarted
  <1>3. /\ f.jobs = command.jobs /\ f.at = command.at /\ f.keys = command.keys
        /\ f.todo = LocalSteps(Job) /\ f.failed = TRUE
    BY <1>2 DEF HasFields, Fields
  <1>4. AfterJob(command, "failed").pc # "local"
    BY <1>1, NextJob
  <1> HIDE DEF f
  <1>5. \/ command' = StartedApply /\ Applied(Job)
        \/ command' = f
    BY <1>4 DEF Remote, f
  <1> QED
    BY <1>2, <1>3, <1>5

(* What has not been taken before a local step is that step.               *)
LEMMA LeftAfterLocalStep ==
  ASSUME NEW todo \in BootstrapTodos, todo # <<>>, NEW step,
         step \notin Range(Tail(todo))
  PROVE  step \notin Range(todo) \/ step = Head(todo)
  <1> DEFINE S == {"ssh", "wireguard", "init"}
  <1>1. todo \in Seq(S)
    <2>1. /\ <<"ssh", "wireguard", "init">> \in Seq(S)
          /\ <<"wireguard", "init">> \in Seq(S)
          /\ <<"init">> \in Seq(S) /\ <<>> \in Seq(S)
      OBVIOUS
    <2> HIDE DEF S
    <2> QED
      BY <2>1 DEF BootstrapTodos
  <1> QED
    BY <1>1, OwnSequence, LeftAfterHead

(* What a bootstrap has so far, it keeps until it is over.                 *)
LEMMA SettlingInvStep ==
  ASSUME ControlInv, StoreInv, OnceInv, OwnKeysInv, SettlingInv, DeployedInv,
         [Next]_vars
  PROVE  SettlingInv'
  <1> SUFFICES ASSUME command'.pc \in {"local", "record"}, Job'.kind = "bootstrap"
               PROVE  SettlingInv'
    BY DEF SettlingInv
  <1> DEFINE h == Job.host
  <1>1. \A g : Own(g)' <=> Own(g)
    BY OwnStays
  <1>2. CASE Remote /\ command'.pc = "local"
    <2>1. /\ command'.jobs = command.jobs /\ command'.at = command.at
          /\ command'.keys = command.keys /\ command'.todo = LocalSteps(Job)
          /\ ~command'.failed => Applied(Job)
      BY <1>2, RemoteTakes
    <2>2. Job' = Job /\ Key' = Key /\ Job.kind = "bootstrap"
      BY <2>1 DEF Job, Key
    <2>3. h \in Hosts
      BY <1>2, JobAtHand DEF Remote
    <2>4. h \notin settled'
      BY <1>2, <2>2, SettledSteps
    <2>5. ~command'.failed => deployed'[h] = Key
      BY <2>1, <2>2, <2>3 DEF Applied, DeployedInv
    <2>6. ~Taken("ssh")' /\ ~Taken("wireguard")'
      <3>1. command'.todo = <<"ssh", "wireguard", "init">>
        BY <2>1, <2>2 DEF LocalSteps
      <3>2. "ssh" \in Range(command'.todo) /\ "wireguard" \in Range(command'.todo)
        BY <3>1 DEF Range
      <3> QED
        BY <1>2, <3>2 DEF Taken
    <2> QED
      BY <1>2, <2>2, <2>4, <2>5, <2>6 DEF SettlingInv
  <1>3. CASE LocalStep
    <2> DEFINE d == command'
    <2>1. /\ d.jobs = command.jobs /\ d.at = command.at /\ d.keys = command.keys
          /\ d.pc = "local" /\ d.todo = Tail(command.todo)
          /\ d.failed = command.failed
          /\ \/ /\ d.warned = command.warned
                /\ wg' = IF Head(command.todo) = "wireguard" THEN Saved(h, Key) ELSE wg
                /\ confD' = IF Head(command.todo) = "ssh" THEN confD \cup {h} ELSE confD
             \/ d.warned = TRUE /\ wg' = wg /\ confD' = confD
      BY <1>3, LocalStepTakes
    <2>2. Job' = Job /\ Key' = Key /\ Job.kind = "bootstrap"
      BY <2>1 DEF Job, Key
    <2>3. command.pc = "local" /\ command.todo # <<>> /\ settled' = settled
          /\ deployed' = deployed
      BY <1>3 DEF LocalStep, servers
    <2>4. h \in Hosts /\ command.todo \in BootstrapTodos
      BY <2>2, <2>3, JobAtHand DEF ControlInv, CommandInv, LocalTodos, Job
    <2>5. /\ h \notin settled /\ (~command.failed => deployed[h] = Key)
          /\ ~command.warned /\ Taken("ssh") => h \in confD
          /\ ~command.warned /\ Taken("wireguard") /\ Own(h) =>
               wg[h].exists /\ wg[h].conf = Key /\ wg[h].key = Key
      BY <2>2, <2>3 DEF SettlingInv
    <2>6. \A step : Taken(step)' => Taken(step) \/ step = Head(command.todo)
      BY <2>1, <2>3, <2>4, LeftAfterLocalStep DEF Taken
    <2> HIDE DEF h
    <2>7. ~d.warned /\ Taken("ssh")' => h \in confD'
      BY <2>1, <2>5, <2>6
    <2>8. ASSUME ~d.warned, Taken("wireguard")', Own(h)
          PROVE  wg'[h].exists /\ wg'[h].conf = Key /\ wg'[h].key = Key
      <3>1. CASE Head(command.todo) = "wireguard"
        <4>1. wg' = Saved(h, Key)
          BY <2>1, <2>8, <3>1
        <4>2. wg'[h] = [exists |-> TRUE, key |-> WriteOnce(wg[h].key, Key), conf |-> Key]
          BY <2>4, <4>1, SavedDirs DEF ControlInv
        <4>3. wg[h].key \in {NoKey, Key}
          BY <2>2, <2>3, <2>8, AppliedIsPast DEF OwnKeysInv, OnServer, Job, Key, h
        <4> QED
          BY <4>2, <4>3 DEF WriteOnce
      <3>2. CASE Head(command.todo) # "wireguard"
        BY <2>1, <2>5, <2>6, <2>8, <3>2
      <3> QED
        BY <3>1, <3>2
    <2> QED
      BY <1>1, <2>1, <2>2, <2>3, <2>5, <2>7, <2>8 DEF SettlingInv, h
  <1>4. CASE LocalStepsDone /\ command'.pc = "record"
    <2>1. command.pc = "local" /\ command.todo = <<>>
          /\ UNCHANGED <<localState, servers, settled>>
      BY <1>4 DEF LocalStepsDone
    <2>2. AfterJob(command, "failed").pc # "record"
      BY NextJob DEF ControlInv, CommandInv
    <2>3. /\ ~command.failed
          /\ command'.jobs = command.jobs /\ command'.at = command.at
          /\ command'.keys = command.keys /\ command'.warned = command.warned
          /\ command'.failed = command.failed
      BY <1>4, <2>2, LocalStepsEnd
    <2>4. Job' = Job /\ Key' = Key /\ Job.kind = "bootstrap"
      BY <2>3 DEF Job, Key
    <2>5. \A step : Taken(step)
      BY <2>1 DEF Taken, Range
    <2> QED
      BY <1>1, <2>1, <2>3, <2>4, <2>5 DEF SettlingInv, localState, servers
  <1>5. CASE Record
    <2>1. command.pc = "record" /\ UNCHANGED <<localState, servers, settled>>
      BY <1>5 DEF Record
    <2>2. /\ command'.jobs = command.jobs /\ command'.at = command.at
          /\ command'.keys = command.keys /\ command'.failed = command.failed
          /\ command'.warned = command.warned \/ command'.warned = TRUE
      BY <1>5, RecordTakes
    <2>3. Job' = Job /\ Key' = Key /\ Job.kind = "bootstrap"
      BY <2>2 DEF Job, Key
    <2>4. \A step : Taken(step)
      BY <2>1 DEF Taken
    <2> QED
      BY <1>1, <2>1, <2>2, <2>3, <2>4 DEF SettlingInv, localState, servers
  <1>6. CASE UNCHANGED vars
    BY <1>1, <1>6 DEF vars, localState, servers, SettlingInv, Taken, Job, Key
  <1> QED
    BY <1>2, <1>3, <1>4, <1>5, <1>6, PcSteps

(* What is settled stays so, and of one pair of keys.                      *)
LEMMA SettledInvStep ==
  ASSUME ControlInv, StoreInv, OnceInv, OwnKeysInv, SettledInv, settled \subseteq Hosts,
         [Next]_vars
  PROVE  SettledInv'
  <1>1. Hosts' = Hosts /\ \A h : Own(h)' <=> Own(h)
    BY SituationStays, OwnStays
  <1>2. DeployedInv'
    BY <1>1, DeployedSteps DEF SettledInv, DeployedInv
  <1>3. SettlingInv'
    BY SettlingInvStep DEF SettledInv
  <1>4. ASSUME NEW h, Own(h), Recorded, Job.kind = "bootstrap", ~command.warned,
               h = Job.host
        PROVE  HasItsKeys(h)'
    <2>1. command.pc = "record" /\ UNCHANGED <<localState, servers>>
      BY <1>4 DEF Recorded
    <2>2. \A step : Taken(step)
      BY <2>1 DEF Taken
    <2>3. /\ h \in confD /\ deployed[h] = Key
          /\ wg[h].exists /\ wg[h].conf = Key /\ wg[h].key = Key
      BY <1>4, <2>1, <2>2 DEF SettledInv, SettlingInv
    <2>4. Key # NoKey
      BY <1>4, <2>1, AppliedIsPast DEF OwnKeysInv, OnServer, Job, Key
    <2> QED
      BY <2>1, <2>3, <2>4 DEF HasItsKeys, localState, servers
  <1>5. ASSUME NEW h \in settled, Own(h),
               RemoveLocal \/ (Remote /\ Job.kind = "bootstrap") => h # Job.host
        PROVE  HasItsKeys(h)'
    <2>1. h \in Hosts /\ Unshared(h) /\ HasItsKeys(h)
      BY <1>5 DEF SettledInv, Own
    <2>2. h \in confD'
      BY <1>5, <2>1, FileSteps DEF HasItsKeys
    <2>3. deployed'[h] = deployed[h]
      BY <1>5, <2>1, DeployedSteps DEF SettledInv, DeployedInv
    <2>4. ~(LocalStep /\ Job.kind = "bootstrap" /\ Job.host = h)
      BY <1>5 DEF SettledInv, SettlingInv, LocalStep
    <2>5. wg'[h].exists /\ wg'[h].conf = wg[h].conf /\ wg'[h].key = wg[h].key
      <3>1. \/ wg'[h] = wg[h]
            \/ wg'[h] = [exists |-> TRUE, key |-> WriteOnce(wg[h].key, KeyOf(Job)),
                         conf |-> wg[h].conf]
        BY <1>5, <2>1, <2>4, OwnDirSteps
      <3> QED
        BY <2>1, <3>1 DEF HasItsKeys, WriteOnce
    <2> QED
      BY <2>1, <2>2, <2>3, <2>5 DEF HasItsKeys
  <1>6. \A h \in settled' : Own(h) => HasItsKeys(h)'
    BY <1>4, <1>5, SettledSteps
  <1> QED
    BY <1>1, <1>2, <1>3, <1>6 DEF SettledInv

(* A tunnel of a host of its own is up for what its directory says.        *)
TunnelInv ==
  \A h \in Hosts :
    Own(h) /\ active[Interface[h]] # NoKey /\ Interface[h] \notin stuck =>
      active[Interface[h]] = wg[h].conf

(* ... and every step leaves it so.                                        *)
LEMMA TunnelInvStep ==
  ASSUME ControlInv, StoreInv, ActiveInv, ProvidedInv, RemovalInv, OnceInv,
         OwnKeysInv, TunnelInv, [Next]_vars
  PROVE  TunnelInv'
  <1>1. Hosts' = Hosts /\ situation \in Situations /\ \A h : Own(h)' <=> Own(h)
    BY SituationStays, OwnStays DEF ControlInv
  <1>2. ASSUME NEW h \in Hosts, Own(h), active'[Interface[h]] # NoKey,
               Interface[h] \notin stuck'
        PROVE  active'[Interface[h]] = wg'[h].conf
    <2> DEFINE i == Interface[h]
               g == Job.host
    <2>1. Unshared(h)
      BY <1>2 DEF Own
    <2>2. TornDown(g) /\ command.pc # "idle" => Interface[g] # i
      BY <1>2, ActiveSteps
    <2>3. i \notin stuck
      BY <1>2, <2>2, StuckSteps DEF TunnelDown
    <2>4. CASE active'[i] = active[i]
      <3>1. active[i] # NoKey /\ active[i] = wg[h].conf
        BY <1>2, <2>3, <2>4 DEF TunnelInv
      <3>2. wg[h].key = wg[h].conf
        BY <1>2, <3>1 DEF OwnKeysInv
      <3>3. CASE wg'[h].conf = wg[h].conf
        BY <2>4, <3>1, <3>3
      <3>4. CASE /\ LocalStep /\ Job.kind = "bootstrap" /\ g = h
                 /\ wg'[h] = [exists |-> TRUE, key |-> WriteOnce(wg[h].key, Key),
                              conf |-> Key]
        <4>1. wg[h].key \in {NoKey, Key}
          BY <1>2, <3>4, AppliedIsPast DEF LocalStep, OwnKeysInv, OnServer, Job, Key
        <4> QED
          BY <2>4, <3>1, <3>2, <3>4, <4>1
      <3>5. CASE RemoveLocal /\ g = h /\ Head(command.todo) = "wireguard"
        <4>1. command.pc = "remove" /\ command.todo \in RemoveTodos /\ command.todo # <<>>
          BY <3>5 DEF RemoveLocal, ControlInv, CommandInv
        <4>2. "tunnel" \notin Range(command.todo)
          <5>1. command.todo = <<"wireguard", "ssh", "keys", "inventory">>
            BY <3>5, <4>1 DEF RemoveTodos
          <5> QED
            BY <5>1 DEF Range
        <4>3. TunnelGone(h)
          BY <3>5, <4>1, <4>2 DEF RemovalInv, Done
        <4> QED
          BY <2>3, <3>1, <4>3 DEF TunnelGone
      <3>6. \/ wg'[h].conf = wg[h].conf
            \/ /\ LocalStep /\ Job.kind = "bootstrap" /\ g = h
               /\ wg'[h] = [exists |-> TRUE, key |-> WriteOnce(wg[h].key, Key),
                            conf |-> Key]
            \/ RemoveLocal /\ g = h /\ Head(command.todo) = "wireguard"
        <4>1. [exists |-> TRUE, key |-> WriteOnce(wg[h].key, KeyOf(Job)),
               conf |-> wg[h].conf].conf = wg[h].conf
          OBVIOUS
        <4> QED
          BY <2>1, <4>1, OwnDirSteps
      <3> QED
        BY <3>3, <3>4, <3>5, <3>6
    <2>5. CASE active'[i] # active[i]
      <3>1. TunnelUp /\ BroughtUp(g)
        BY <1>2, <2>2, <2>5, FileSteps, ActiveSteps DEF RemoveLocal, TunnelDown
      <3>2. command.pc # "idle" /\ wg' = wg
        BY <3>1 DEF TunnelUp
      <3>3. g = h
        <4>1. g \in Hosts /\ Interface[g] = Interface[h]
          BY <2>5, <3>2, JobAtHand, ActiveSteps
        <4> QED
          BY <1>1, <2>1, <4>1, OwnName
      <3>4. active'[i] = Found(h).conf
        BY <2>5, <3>1, <3>2, <3>3, ActiveSteps
      <3>5. Found(h) = wg[h]
        BY <1>1, <1>2, <2>1, <3>4, FoundOwn
      <3> QED
        BY <3>2, <3>4, <3>5
    <2> QED
      BY <2>4, <2>5
  <1> QED
    BY <1>1, <1>2 DEF TunnelInv

KeysInv == OnceInv /\ OwnKeysInv /\ SettledInv /\ TunnelInv

(* All of it at once.                                                      *)
LEMMA KeysStay == Spec => [](GoneInv /\ TypeInv /\ KeysInv)
  <1>1. Init => KeysInv
    <2> SUFFICES ASSUME Init
                 PROVE  KeysInv
      OBVIOUS
    <2>1. /\ command.pc = "idle" /\ settled = {}
          /\ deployed = [h \in Hosts |-> NoKey]
          /\ active = [i \in {Interface[h] : h \in Hosts} |-> NoKey]
      BY DEF Init, NoCommand
    <2>2. \A h \in Hosts : wg[h] = NoDir
      BY DEF Init, Dirs
    <2>3. NoDir.conf = NoKey
      BY DEF NoDir
    <2>4. OwnKeysInv
      BY <2>1, <2>2, <2>3 DEF OwnKeysInv, Past, OnServer
    <2>5. SettledInv
      BY <2>1 DEF SettledInv, SettlingInv, DeployedInv
    <2>6. TunnelInv
      BY <2>1 DEF TunnelInv
    <2> QED
      BY <2>1, <2>4, <2>5, <2>6 DEF KeysInv, OnceInv
  <1>2. LocalInv /\ GoneInv /\ KeysInv /\ [Next]_vars => KeysInv'
    <2> SUFFICES ASSUME LocalInv, GoneInv, KeysInv, [Next]_vars
                 PROVE  KeysInv'
      OBVIOUS
    <2>1. /\ ControlInv /\ StoreInv /\ ActiveInv /\ settled \subseteq Hosts
          /\ RemovalInv /\ ProvidedInv
      BY DEF LocalInv, TypeInv, FilesInv, GoneInv
    <2> QED
      BY <2>1, OnceInvStep, OwnKeysInvStep, SettledInvStep, TunnelInvStep DEF KeysInv
  <1> QED
    BY <1>1, <1>2, LocalStays, GoneStay, PTL DEF Spec, LocalInv

(* A host whose bootstrap succeeded without a warning can be reached until *)
(* it is removed: its ssh fragment is in conf.d, and the configuration     *)
(* that tunnel up finds and the saved keys are of the keys its server has, *)
(* whatever commands come after, fail or are interrupted.                  *)
THEOREM SettledAreReachable == Spec => []SettledIsReachable
  <1>1. ASSUME GoneInv, TypeInv, KeysInv
        PROVE  SettledIsReachable
    <2>1. /\ situation \in Situations /\ StoreInv /\ ProvidedInv
          /\ settled \subseteq Hosts
      BY <1>1 DEF TypeInv, ControlInv, FilesInv, GoneInv
    <2>2. ASSUME NEW h \in settled, Unshared(h), Once(h)
          PROVE  /\ h \in confD
                 /\ h.provider = "" \/ ~wg[Flat(h)].exists => Found(h).conf = deployed[h]
                 /\ wg[h].conf = deployed[h] /\ wg[h].key = deployed[h]
      <3>1. HasItsKeys(h)
        BY <1>1, <2>2 DEF KeysInv, SettledInv, Own
      <3>2. h.provider = "" \/ ~wg[Flat(h)].exists => Found(h) = wg[h]
        BY <2>1, <2>2, <3>1, FoundOwn DEF HasItsKeys
      <3> QED
        BY <3>1, <3>2 DEF HasItsKeys
    <2> QED
      BY <2>2 DEF SettledIsReachable
  <1>2. GoneInv /\ TypeInv /\ KeysInv => SettledIsReachable
    BY <1>1
  <1> QED
    BY <1>2, KeysStay, PTL

(* The tunnel behind an interface is that of the host it is named for, as  *)
(* last configured: to the keys of its server, if its bootstrap succeeded. *)
THEOREM TunnelsAreOwn == Spec => []TunnelIsOwn
  <1>1. ASSUME KeysInv
        PROVE  TunnelIsOwn
    <2>1. ASSUME NEW h \in Hosts, Unshared(h), Once(h), active[Interface[h]] # NoKey,
                 Interface[h] \notin stuck
          PROVE  /\ active[Interface[h]] = wg[h].conf
                 /\ h \in settled => active[Interface[h]] = deployed[h]
      <3>1. active[Interface[h]] = wg[h].conf
        BY <1>1, <2>1 DEF KeysInv, TunnelInv, Own
      <3>2. h \in settled => wg[h].conf = deployed[h]
        BY <1>1, <2>1 DEF KeysInv, SettledInv, Own, HasItsKeys
      <3> QED
        BY <3>1, <3>2
    <2> QED
      BY <2>1 DEF TunnelIsOwn
  <1>2. KeysInv => TunnelIsOwn
    BY <1>1
  <1> QED
    BY <1>2, KeysStay, PTL

-----------------------------------------------------------------------------
(* Keys that a bootstrap deploys.                                          *)

IsSaved(w, h, key) ==
  \/ \E d \in Dirs : w[d].key = key
  \/ h.provider # "" /\ w[Flat(h)].key # NoKey

(* Keys that the pipeline has made are saved, or others were in the way.    *)
PersistedInv ==
  \A i \in Past(command) :
    LET job == command.jobs[i]
    IN  job.kind = "bootstrap" /\ ~job.keyFile =>
          command.keys[i] # NoKey /\ IsSaved(wg, job.host, command.keys[i])

(* Whatever is saved stays, as long as nothing is removed.                 *)
LEMMA SavedStays ==
  ASSUME ControlInv, StoreInv, [Next]_vars,
         command.pc \notin {"idle", "remove"},
         NEW h \in Hosts, NEW key, key # NoKey, IsSaved(wg, h, key)
  PROVE  IsSaved(wg', h, key)
  <1>1. command.op # "remove"
    BY DEF ControlInv, CommandInv
  <1>2. ASSUME NEW d \in Dirs, wg[d].key # NoKey
        PROVE  wg'[d].key = wg[d].key
    <2>1. CASE d = Job.host
      BY <1>1, <1>2, <2>1, StoreKept
    <2>2. CASE d # Job.host
      BY <1>2, <2>2, StoreKept
    <2> QED
      BY <2>1, <2>2
  <1>3. situation \in Situations /\ Flat(h) \in Dirs
    BY HostDirs DEF ControlInv
  <1> QED
    BY <1>2, <1>3 DEF IsSaved

(* The pipeline saves the keys that it makes.                              *)
LEMMA PipelineSaves ==
  ASSUME ControlInv, StoreInv, ActiveInv, Pipeline, Past(command') # {},
         Job.kind = "bootstrap", ~Job.keyFile
  PROVE  IsSaved(wg', Job.host, KeyOf(Job))
  <1> DEFINE h == Job.host
             k == KeyOf(Job)
  <1>1. situation \in Situations /\ h \in Hosts
    BY JobAtHand DEF Pipeline, ControlInv
  <1>2. Job.flaw # "broken"
    <2> SUFFICES ASSUME Job.flaw = "broken"
                 PROVE  Past(command') = {}
      OBVIOUS
    <2> DEFINE c == [command EXCEPT !.keys = Append(@, KeyOf(Job))]
    <2>1. command' = IF c.fleet THEN AfterJob(c, "failed") ELSE Ended(c, "failed")
      BY DEF Pipeline
    <2>2. /\ HasFields(c) /\ c.fleet = command.fleet /\ c.at \in DOMAIN c.jobs
          /\ c.jobs \in Seq(Range(c.jobs))
      BY KeysAdded DEF Pipeline
    <2> HIDE DEF c
    <2>3. CASE c.fleet
      <3>1. \/ command'.pc = "idle"
            \/ command'.pc = "pipeline" /\ command'.fleet
        BY <2>1, <2>2, <2>3, NextJob
      <3> QED
        BY <3>1 DEF Past, OnServer
    <2>4. CASE ~c.fleet
      <3>1. command'.pc = "idle"
        BY <2>1, <2>2, <2>4, EndedCommand
      <3> QED
        BY <3>1 DEF Past, OnServer
    <2> QED
      BY <2>3, <2>4
  <1>3. wg' = Persisted(h, k)
    BY <1>2 DEF Pipeline, GeneratesKeys
  <1>4. k # NoKey /\ wg[h].key \in {NoKey, k}
    BY KeysOfJob
  <1>5. Flat(h) \in Dirs /\ (h.provider = "" => Flat(h) = h)
    BY <1>1, HostDirs
  <1> HIDE DEF h, k
  <1>6. wg'[Flat(h)].key = WriteOnce(wg[Flat(h)].key, k)
    <2>1. wg'[Flat(h)] = [exists |-> TRUE, key |-> WriteOnce(wg[Flat(h)].key, k),
                          conf |-> wg[Flat(h)].conf]
      BY <1>1, <1>3, PersistedDirs
    <2> QED
      BY <2>1
  <1>7. \/ \E d \in Dirs : wg'[d].key = k
        \/ h.provider # "" /\ wg'[Flat(h)].key # NoKey
    BY <1>4, <1>5, <1>6 DEF WriteOnce
  <1> QED
    BY <1>7 DEF IsSaved, h, k

(* Every step keeps what is said of them.                                  *)
LEMMA PersistedInvStep ==
  ASSUME ControlInv, StoreInv, ActiveInv, PersistedInv, [Next]_vars
  PROVE  PersistedInv'
  <1> SUFFICES ASSUME NEW i \in Past(command'), NEW job, job = command'.jobs[i],
                      job.kind = "bootstrap", ~job.keyFile
               PROVE  /\ command'.keys[i] # NoKey
                      /\ IsSaved(wg', job.host, command'.keys[i])
    BY SituationStays DEF PersistedInv, IsSaved, Flat
  <1>1. /\ job = command.jobs[i] /\ i \in DOMAIN command.jobs
        /\ \/ i \in Past(command) /\ command'.keys[i] = command.keys[i]
           \/ Pipeline /\ i = command.at /\ command'.keys[i] = KeyOf(Job)
    BY PastSteps
  <1>2. job.host \in Hosts
    BY <1>1 DEF ControlInv, CommandInv, IsJob
  <1>3. CASE i \in Past(command) /\ command'.keys[i] = command.keys[i]
    <2>1. command.keys[i] # NoKey /\ IsSaved(wg, job.host, command.keys[i])
      BY <1>1, <1>3 DEF PersistedInv
    <2>2. command.pc \notin {"idle", "remove"}
      BY <1>3 DEF Past, OnServer
    <2> QED
      BY <1>2, <1>3, <2>1, <2>2, SavedStays
  <1>4. CASE Pipeline /\ i = command.at /\ command'.keys[i] = KeyOf(Job)
    <2>1. job = Job
      BY <1>1, <1>4 DEF Job
    <2>2. KeyOf(Job) # NoKey
      BY <2>1, KeysOfJob
    <2>3. IsSaved(wg', Job.host, KeyOf(Job))
      BY <1>4, <2>1, PipelineSaves
    <2> QED
      BY <1>4, <2>1, <2>2, <2>3
  <1> QED
    BY <1>1, <1>3, <1>4

(* Whatever becomes of its apply, the keys that a bootstrap put on a       *)
(* server are saved on this machine, unless they are of a key file: or, of *)
(* a host with a provider, others were in the way in the directory of the  *)
(* bare name.                                                              *)
THEOREM KeysAreSaved == Spec => DeployedKeysAreSaved
  <1> DEFINE Survives ==
        /\ command.pc = "remote" /\ command'.pc = "idle"
        /\ Job.kind = "bootstrap" /\ ~Job.keyFile
        /\ deployed'[Job.host] = Key
        => \/ \E d \in Dirs : wg[d].key = Key
           \/ Job.host.provider # "" /\ wg[Flat(Job.host)].key # NoKey
  <1>1. Init => PersistedInv
    <2>1. Init => command.pc = "idle"
      BY DEF Init, NoCommand
    <2> QED
      BY <2>1 DEF PersistedInv, Past, OnServer
  <1>2. LocalInv /\ PersistedInv /\ [Next]_vars => PersistedInv'
    BY PersistedInvStep DEF LocalInv, TypeInv, FilesInv
  <1>3. LocalInv /\ PersistedInv => [Survives]_vars
    <2> SUFFICES ASSUME LocalInv, PersistedInv, command.pc = "remote",
                        Job.kind = "bootstrap", ~Job.keyFile
                 PROVE  IsSaved(wg, Job.host, Key)
      BY DEF IsSaved
    <2>1. command.at \in Past(command)
      BY AppliedIsPast DEF LocalInv, TypeInv, OnServer
    <2> QED
      BY <2>1 DEF PersistedInv, Job, Key
  <1> QED
    BY <1>1, <1>2, <1>3, LocalStays, PTL DEF Spec, DeployedKeysAreSaved

-----------------------------------------------------------------------------
(* Outcomes.  A command has an outcome for each of its jobs that is over,  *)
(* and nothing of what is applied and recorded for a job is undone while   *)
(* the command runs.                                                       *)

Outcomes == {"failed", "warned", "success"}

(* The jobs that are over, and what the report says of them.               *)
AccountInv(c) ==
  /\ c.outcomes \in Seq(Outcomes) /\ Len(c.outcomes) <= Len(c.jobs)
  /\ c.pc # "idle" => (c.op = "apply" <=> c.pc \in {"pipeline"} \cup OnServer)
  /\ c.pc \in OnServer \/ (c.pc = "pipeline" /\ c.fleet) =>
       Len(c.outcomes) = c.at - 1
  /\ c.pc \in {"remove", "up", "down"} \/ (c.pc = "pipeline" /\ ~c.fleet) =>
       c.outcomes = <<>>
  /\ c.pc # "idle" /\ ~(c.fleet /\ c.continue) => "failed" \notin Range(c.outcomes)
  /\ c.pc = "idle" /\ c.op = "apply" =>
       /\ c.report = "ok" => "failed" \notin Range(c.outcomes)
       /\ c.report = "ok" \/ (c.report = "failed" /\ c.fleet /\ c.continue) =>
            Len(c.outcomes) = Len(c.jobs)

(* What a command was given.                                               *)
SameRequest(c, d) ==
  /\ d.op = c.op /\ d.jobs = c.jobs /\ d.fleet = c.fleet
  /\ d.continue = c.continue /\ d.rotate = c.rotate

SameOutcomes(c, d) == SameRequest(c, d) /\ d.outcomes = c.outcomes

(* The job at hand is over.                                                *)
JobOver(c, d, outcome) ==
  /\ SameRequest(c, d) /\ d.outcomes = Append(c.outcomes, outcome)
  /\ \/ /\ d.pc = "idle" /\ d.report = "failed"
        /\ ~(c.fleet /\ c.continue)
     \/ /\ outcome = "failed" => c.fleet /\ c.continue
        /\ c.at = Len(c.jobs) /\ d.pc = "idle"
        /\ d.report = IF "failed" \in Range(d.outcomes) THEN "failed" ELSE "ok"
     \/ /\ outcome = "failed" => c.fleet /\ c.continue
        /\ c.at # Len(c.jobs) /\ d.at = c.at + 1
        /\ d.pc = IF c.fleet THEN "pipeline" ELSE "remote"

(* An ended command has the outcomes that it had.                          *)
LEMMA EndKeepsOutcomes ==
  ASSUME NEW c, HasFields(c), NEW report
  PROVE  /\ SameOutcomes(c, Ended(c, report))
         /\ Ended(c, report).pc = "idle" /\ Ended(c, report).report = report
  BY DEF Ended, HasFields, Fields, SameOutcomes, SameRequest

(* The end of a job adds an outcome.                                       *)
LEMMA JobAddsOutcome ==
  ASSUME NEW c, HasFields(c), NEW outcome
  PROVE  JobOver(c, AfterJob(c, outcome), outcome)
  <1> DEFINE d == [c EXCEPT !.outcomes = Append(@, outcome), !.todo = <<>>]
             n == [d EXCEPT !.at = @ + 1, !.pc = IF c.fleet THEN "pipeline" ELSE "remote"]
             failures == "failed" \in Range(d.outcomes)
  <1>1. /\ HasFields(d) /\ SameRequest(c, d) /\ d.at = c.at
        /\ d.outcomes = Append(c.outcomes, outcome)
    BY DEF HasFields, Fields, SameRequest
  <1>2. \/ /\ outcome = "failed" /\ ~(c.fleet /\ c.continue)
           /\ AfterJob(c, outcome) = Ended(d, "failed")
        \/ /\ ~(outcome = "failed" /\ ~(c.fleet /\ c.continue))
           /\ c.at = Len(c.jobs)
           /\ AfterJob(c, outcome) = Ended(d, IF failures THEN "failed" ELSE "ok")
        \/ /\ ~(outcome = "failed" /\ ~(c.fleet /\ c.continue))
           /\ c.at # Len(c.jobs) /\ AfterJob(c, outcome) = n
    BY DEF AfterJob
  <1> HIDE DEF d
  <1>3. /\ n.op = d.op /\ n.jobs = d.jobs /\ n.fleet = d.fleet
        /\ n.continue = d.continue /\ n.rotate = d.rotate
        /\ n.outcomes = d.outcomes /\ n.at = d.at + 1
        /\ n.pc = IF c.fleet THEN "pipeline" ELSE "remote"
    BY <1>1 DEF HasFields, Fields
  <1>4. \A report : /\ SameOutcomes(d, Ended(d, report))
                    /\ Ended(d, report).pc = "idle" /\ Ended(d, report).report = report
    BY <1>1, EndKeepsOutcomes
  <1> HIDE DEF n, failures
  <1>5. CASE /\ outcome = "failed" /\ ~(c.fleet /\ c.continue)
             /\ AfterJob(c, outcome) = Ended(d, "failed")
    BY <1>1, <1>4, <1>5 DEF JobOver, SameOutcomes, SameRequest
  <1>6. CASE /\ ~(outcome = "failed" /\ ~(c.fleet /\ c.continue))
             /\ c.at = Len(c.jobs)
             /\ AfterJob(c, outcome) = Ended(d, IF failures THEN "failed" ELSE "ok")
    BY <1>1, <1>4, <1>6 DEF JobOver, SameOutcomes, SameRequest, failures
  <1>7. CASE /\ ~(outcome = "failed" /\ ~(c.fleet /\ c.continue))
             /\ c.at # Len(c.jobs) /\ AfterJob(c, outcome) = n
    BY <1>1, <1>3, <1>7 DEF JobOver, SameRequest
  <1> QED
    BY <1>2, <1>5, <1>6, <1>7

(* The end of a pipeline adds none.                                        *)
LEMMA PipelineKeepsOutcomes ==
  ASSUME NEW c, HasFields(c)
  PROVE  /\ SameOutcomes(c, AfterPipeline(c))
         /\ \/ c.fleet /\ AfterPipeline(c).pc = "remote" /\ AfterPipeline(c).at = c.at
            \/ /\ ~c.fleet /\ AfterPipeline(c).pc = c.pc
               /\ AfterPipeline(c).at = c.at + 1
            \/ ~c.fleet /\ AfterPipeline(c).pc = "remote" /\ AfterPipeline(c).at = 1
            \/ ~c.fleet /\ AfterPipeline(c).pc = "idle" /\ AfterPipeline(c).report = "failed"
  <1> DEFINE a == [c EXCEPT !.pc = "remote"]
             b == [c EXCEPT !.at = @ + 1]
             e == [c EXCEPT !.at = 1, !.pc = "remote"]
  <1>1. \/ c.fleet /\ AfterPipeline(c) = a
        \/ ~c.fleet /\ AfterPipeline(c) = b
        \/ ~c.fleet /\ AfterPipeline(c) = e
        \/ ~c.fleet /\ AfterPipeline(c) = Ended(c, "failed")
    BY DEF AfterPipeline
  <1>2. SameOutcomes(c, a) /\ a.pc = "remote" /\ a.at = c.at
    BY DEF HasFields, Fields, SameOutcomes, SameRequest
  <1>3. SameOutcomes(c, b) /\ b.pc = c.pc /\ b.at = c.at + 1
    BY DEF HasFields, Fields, SameOutcomes, SameRequest
  <1>4. SameOutcomes(c, e) /\ e.pc = "remote" /\ e.at = 1
    BY DEF HasFields, Fields, SameOutcomes, SameRequest
  <1> HIDE DEF a, b, e
  <1> QED
    BY <1>1, <1>2, <1>3, <1>4, EndKeepsOutcomes

(* How a step moves on in the outcomes of a command.                       *)
StaysAtJob ==
  /\ SameOutcomes(command, command')
  /\ command'.pc # "idle" /\ command'.at = command.at
  /\ \/ command.pc \in OnServer /\ command'.pc \in OnServer
     \/ command.pc = "remove" /\ command'.pc = "remove"

MovesInPipeline ==
  /\ SameOutcomes(command, command') /\ command.pc = "pipeline"
  /\ \/ command.fleet /\ command'.pc = "remote" /\ command'.at = command.at
     \/ ~command.fleet /\ command'.pc = "pipeline" /\ command'.at = command.at + 1
     \/ ~command.fleet /\ command'.pc = "remote" /\ command'.at = 1

EndsCommand ==
  /\ SameOutcomes(command, command') /\ command'.pc = "idle"
  /\ \/ command'.report = "crashed"
     \/ command.pc \in {"remove", "up", "down"}
     \/ command'.report = "failed" /\ ~command.fleet

EndsJob(outcome) ==
  /\ JobOver(command, command', outcome)
  /\ command.pc \in OnServer \/ (command.pc = "pipeline" /\ command.fleet)
  /\ outcome # "failed" =>
       Recorded /\ outcome = IF command.warned THEN "warned" ELSE "success"

GoesOn ==
  /\ command.pc # "idle" /\ commands' = commands
  /\ \/ StaysAtJob \/ MovesInPipeline \/ EndsCommand
     \/ \E outcome \in Outcomes : EndsJob(outcome)

(* A step of the pipeline.                                                 *)
LEMMA PipelineOutcomes ==
  ASSUME ControlInv, Pipeline
  PROVE  GoesOn
  <1> DEFINE c == [command EXCEPT !.keys = Append(@, KeyOf(Job))]
  <1>1. /\ HasFields(command) /\ command.pc = "pipeline" /\ commands' = commands
        /\ \/ command' = AfterPipeline(c)
           \/ command' = AfterJob(c, "failed") /\ command.fleet
           \/ command' = Ended(c, "failed") /\ ~command.fleet
    BY DEF ControlInv, CommandInv, Pipeline
  <1>2. /\ HasFields(c) /\ SameOutcomes(command, c)
        /\ c.pc = command.pc /\ c.at = command.at
    BY <1>1 DEF HasFields, Fields, SameOutcomes, SameRequest
  <1> HIDE DEF c
  <1>3. CASE command' = AfterPipeline(c)
    <2>1. /\ SameOutcomes(c, command')
          /\ \/ c.fleet /\ command'.pc = "remote" /\ command'.at = c.at
             \/ ~c.fleet /\ command'.pc = c.pc /\ command'.at = c.at + 1
             \/ ~c.fleet /\ command'.pc = "remote" /\ command'.at = 1
             \/ ~c.fleet /\ command'.pc = "idle" /\ command'.report = "failed"
      BY <1>2, <1>3, PipelineKeepsOutcomes
    <2>2. SameOutcomes(command, command') /\ c.fleet = command.fleet
      BY <1>2, <2>1 DEF SameOutcomes, SameRequest
    <2> QED
      BY <1>1, <1>2, <2>1, <2>2 DEF GoesOn, MovesInPipeline, EndsCommand
  <1>4. CASE command' = AfterJob(c, "failed") /\ command.fleet
    <2>1. JobOver(c, command', "failed")
      BY <1>2, <1>4, JobAddsOutcome
    <2>2. JobOver(command, command', "failed")
      BY <1>2, <2>1 DEF JobOver, SameOutcomes, SameRequest
    <2>3. EndsJob("failed")
      BY <1>1, <1>4, <2>2 DEF EndsJob
    <2> QED
      BY <1>1, <2>3 DEF GoesOn, Outcomes
  <1>5. CASE command' = Ended(c, "failed") /\ ~command.fleet
    <2>1. /\ SameOutcomes(c, command')
          /\ command'.pc = "idle" /\ command'.report = "failed"
      BY <1>2, <1>5, EndKeepsOutcomes
    <2>2. SameOutcomes(command, command')
      BY <1>2, <2>1 DEF SameOutcomes, SameRequest
    <2> QED
      BY <1>1, <1>5, <2>1, <2>2 DEF GoesOn, EndsCommand
  <1> QED
    BY <1>1, <1>3, <1>4, <1>5

(* A step on the server, of the local steps, or of what is recorded.       *)
LEMMA ApplyOutcomes ==
  ASSUME ControlInv, Remote \/ LocalStep \/ LocalStepsDone \/ Record \/ Recorded
  PROVE  GoesOn
  <1>1. /\ HasFields(command) /\ command.pc \in OnServer /\ command.pc # "idle"
        /\ commands' = commands
    BY DEF ControlInv, CommandInv, OnServer, Remote, LocalStep, LocalStepsDone,
           Record, Recorded
  <1>2. ASSUME NEW outcome \in Outcomes, command' = AfterJob(command, outcome),
               outcome # "failed" =>
                 Recorded /\ outcome = IF command.warned THEN "warned" ELSE "success"
        PROVE  GoesOn
    <2>1. JobOver(command, command', outcome)
      BY <1>1, <1>2, JobAddsOutcome
    <2>2. EndsJob(outcome)
      BY <1>1, <1>2, <2>1 DEF EndsJob
    <2> QED
      BY <1>1, <2>2 DEF GoesOn
  <1>3. ASSUME NEW d, SameOutcomes(command, d), d.at = command.at, d.pc \in OnServer,
               command' = d
        PROVE  GoesOn
    BY <1>1, <1>3 DEF GoesOn, StaysAtJob, OnServer
  <1>4. "failed" \in Outcomes
    BY DEF Outcomes
  <1>5. CASE Remote
    <2> DEFINE f == [StartedApply EXCEPT !.failed = TRUE]
    <2>1. /\ HasFields(StartedApply) /\ SameOutcomes(command, StartedApply)
          /\ StartedApply.at = command.at /\ StartedApply.pc = "local"
      BY <1>1 DEF StartedApply, HasFields, Fields, SameOutcomes, SameRequest
    <2>2. SameOutcomes(StartedApply, f) /\ f.at = StartedApply.at /\ f.pc = "local"
      BY <2>1 DEF HasFields, Fields, SameOutcomes, SameRequest
    <2>3. SameOutcomes(command, f) /\ f.at = command.at
      BY <2>1, <2>2 DEF SameOutcomes, SameRequest
    <2>4. \/ command' = StartedApply \/ command' = f
          \/ command' = AfterJob(command, "failed")
      BY <1>5 DEF Remote
    <2> HIDE DEF f
    <2> QED
      BY <1>2, <1>3, <1>4, <2>1, <2>2, <2>3, <2>4 DEF OnServer
  <1>6. CASE LocalStep
    <2> DEFINE c == [command EXCEPT !.todo = Tail(@)]
               a == [c EXCEPT !.opened = (Head(command.todo) = "init")]
               b == [c EXCEPT !.warned = TRUE]
               o == [c EXCEPT !.opened = TRUE]
               e == [o EXCEPT !.warned = TRUE]
    <2>1. command.pc = "local" /\ (command' = a \/ command' = b \/ command' = e)
      BY <1>6 DEF LocalStep, Warned
    <2>2. /\ HasFields(c) /\ SameOutcomes(command, c)
          /\ c.at = command.at /\ c.pc = command.pc
      BY <1>1 DEF HasFields, Fields, SameOutcomes, SameRequest
    <2> HIDE DEF c
    <2>3. SameOutcomes(c, a) /\ a.at = c.at /\ a.pc = c.pc
      BY <2>2 DEF HasFields, Fields, SameOutcomes, SameRequest
    <2>4. SameOutcomes(c, b) /\ b.at = c.at /\ b.pc = c.pc
      BY <2>2 DEF HasFields, Fields, SameOutcomes, SameRequest
    <2>5. /\ HasFields(o) /\ SameOutcomes(c, o)
          /\ o.at = c.at /\ o.pc = c.pc
      BY <2>2 DEF HasFields, Fields, SameOutcomes, SameRequest
    <2> HIDE DEF a, b, o
    <2>6. SameOutcomes(o, e) /\ e.at = o.at /\ e.pc = o.pc
      BY <2>5 DEF HasFields, Fields, SameOutcomes, SameRequest
    <2> HIDE DEF e
    <2>7. /\ SameOutcomes(command, a) /\ SameOutcomes(command, b)
          /\ SameOutcomes(command, e)
      BY <2>2, <2>3, <2>4, <2>5, <2>6 DEF SameOutcomes, SameRequest
    <2> QED
      BY <1>3, <2>1, <2>2, <2>3, <2>4, <2>5, <2>6, <2>7 DEF OnServer
  <1>7. CASE LocalStepsDone
    <2> DEFINE d == [command EXCEPT !.pc = "record", !.todo = Writes(Job, RunId)]
    <2>1. SameOutcomes(command, d) /\ d.at = command.at /\ d.pc = "record"
      BY <1>1 DEF HasFields, Fields, SameOutcomes, SameRequest
    <2>2. command' = AfterJob(command, "failed") \/ command' = d
      BY <1>7 DEF LocalStepsDone
    <2> HIDE DEF d
    <2> QED
      BY <1>2, <1>3, <1>4, <2>1, <2>2 DEF OnServer
  <1>8. CASE Record
    <2> DEFINE a == [command EXCEPT !.todo = Tail(@)]
               e == [command EXCEPT !.todo = <<>>]
               b == [e EXCEPT !.warned = TRUE]
    <2>1. command.pc = "record" /\ (command' = a \/ command' = b)
      BY <1>8 DEF Record, Warned
    <2>2. SameOutcomes(command, a) /\ a.at = command.at /\ a.pc = command.pc
      BY <1>1 DEF HasFields, Fields, SameOutcomes, SameRequest
    <2>3. /\ HasFields(e) /\ SameOutcomes(command, e)
          /\ e.at = command.at /\ e.pc = command.pc
      BY <1>1 DEF HasFields, Fields, SameOutcomes, SameRequest
    <2> HIDE DEF a, e
    <2>4. SameOutcomes(e, b) /\ b.at = e.at /\ b.pc = e.pc
      BY <2>3 DEF HasFields, Fields, SameOutcomes, SameRequest
    <2> HIDE DEF b
    <2>5. SameOutcomes(command, b)
      BY <2>3, <2>4 DEF SameOutcomes, SameRequest
    <2> QED
      BY <1>3, <2>1, <2>2, <2>3, <2>4, <2>5 DEF OnServer
  <1>9. CASE Recorded
    <2> DEFINE outcome == IF command.warned THEN "warned" ELSE "success"
    <2>1. command' = AfterJob(command, outcome)
      BY <1>9 DEF Recorded
    <2>2. outcome \in Outcomes
      BY DEF Outcomes
    <2> QED
      BY <1>2, <1>9, <2>1, <2>2
  <1> QED
    BY <1>5, <1>6, <1>7, <1>8, <1>9

(* Every step is one of these, or begins a command.                        *)
LEMMA OutcomeSteps ==
  ASSUME ControlInv, [Next]_vars
  PROVE  GoesOn \/ (\E c \in situation.choices : Begin(c)) \/ UNCHANGED vars
  <1>1. HasFields(command)
    BY DEF ControlInv, CommandInv
  <1>2. CASE Pipeline
    BY <1>2, PipelineOutcomes
  <1>3. CASE Remote \/ LocalStep \/ LocalStepsDone \/ Record \/ Recorded
    BY <1>3, ApplyOutcomes
  <1>4. CASE RemoveLocal \/ RemoveInventory
    <2>1. PICK result : StepEnded(result)
      BY <1>4 DEF RemoveLocal, RemoveInventory
    <2> DEFINE d == [command EXCEPT !.todo = Tail(@), !.results = Append(@, result)]
    <2>2. SameOutcomes(command, d) /\ d.at = command.at /\ d.pc = command.pc
      BY <1>1 DEF HasFields, Fields, SameOutcomes, SameRequest
    <2>3. command' = d
      BY <2>1 DEF StepEnded
    <2>4. command.pc = "remove" /\ commands' = commands
      BY <1>4 DEF RemoveLocal, RemoveInventory
    <2> HIDE DEF d
    <2> QED
      BY <2>2, <2>3, <2>4 DEF GoesOn, StaysAtJob
  <1>5. CASE Removed \/ TunnelUp \/ TunnelDown \/ Crash \/ CrashInInit
    <2>1. /\ command.pc # "idle" /\ commands' = commands
          /\ \E report : /\ command' = Ended(command, report)
                         /\ \/ report = "crashed"
                            \/ command.pc \in {"remove", "up", "down"}
      BY <1>5 DEF Removed, TunnelUp, TunnelDown, Crash, CrashInInit
    <2> QED
      BY <1>1, <2>1, EndKeepsOutcomes DEF GoesOn, EndsCommand
  <1> QED
    BY <1>2, <1>3, <1>4, <1>5 DEF Next, Progress

(* The jobs that are over stay accounted for.                              *)
LEMMA AccountInvStep ==
  ASSUME ControlInv, AccountInv(command), [Next]_vars
  PROVE  AccountInv(command')
  <1> DEFINE c == command
             d == command'
  <1>1. c.pc # "idle" => /\ c.at \in 1..Len(c.jobs) /\ Len(c.jobs) \in Nat
    BY JobAtHand
  <1>2. c.outcomes \in Seq(Outcomes)
    BY DEF AccountInv
  <1>3. CASE UNCHANGED vars
    BY <1>3 DEF vars
  <1>4. CASE \E e \in situation.choices : Begin(e)
    <2>1. PICK e \in situation.choices : Begin(e)
      BY <1>4
    <2>2. /\ e.op \in {"apply", "remove", "up", "down"}
          /\ Selected(e) \in Seq(Range(Selected(e)))
      BY ChoicesAssumption DEF ControlInv
    <2>3. /\ d.op = e.op /\ d.jobs = Selected(e) /\ d.fleet = e.fleet /\ d.at = 1
          /\ d.pc = IF Selected(e) = <<>> THEN "idle" ELSE FirstPc(e.op)
          /\ d.outcomes = <<>>
          /\ d.pc = "idle" => d.jobs = <<>>
      BY <2>1, <2>2 DEF Begin, NoCommand, FirstPc
    <2>4. d.pc # "idle" => /\ d.pc = "pipeline" <=> d.op = "apply"
                           /\ d.pc \in {"pipeline", "remove", "up", "down"}
      BY <2>2, <2>3 DEF FirstPc
    <2>5. Len(d.jobs) \in Nat /\ Len(d.outcomes) = 0 /\ Range(d.outcomes) = {}
      BY <2>2, <2>3 DEF Range
    <2> HIDE DEF d
    <2>6. d.outcomes \in Seq(Outcomes)
      BY <2>3
    <2>7. Len(d.outcomes) <= Len(d.jobs)
      BY <2>5
    <2>8. d.pc = "idle" => Len(d.outcomes) = Len(d.jobs)
      BY <2>3, <2>5
    <2> QED
      BY <2>3, <2>4, <2>5, <2>6, <2>7, <2>8 DEF AccountInv, OnServer, d
  <1>5. CASE GoesOn
    <2>1. c.pc # "idle"
      BY <1>5 DEF GoesOn
    <2>2. /\ c.at \in Nat /\ c.at >= 1 /\ c.at <= Len(c.jobs) /\ Len(c.jobs) \in Nat
          /\ c.outcomes \in Seq(Outcomes) /\ Len(c.outcomes) \in Nat
          /\ c.op = "apply" <=> c.pc \in {"pipeline"} \cup OnServer
      BY <1>1, <1>2, <2>1 DEF AccountInv
    <2>3. CASE StaysAtJob
      BY <2>1, <2>3 DEF StaysAtJob, AccountInv, SameOutcomes, SameRequest, OnServer
    <2>4. CASE MovesInPipeline
      <3>1. /\ SameOutcomes(c, d) /\ c.pc = "pipeline" /\ c.op = "apply"
            /\ d.pc \in {"pipeline", "remote"}
        BY <2>2, <2>4 DEF MovesInPipeline
      <3>2. d.pc = "remote" \/ (d.pc = "pipeline" /\ d.fleet) =>
              Len(d.outcomes) = d.at - 1
        BY <2>4, <3>1 DEF MovesInPipeline, AccountInv, SameOutcomes, SameRequest
      <3>3. d.pc = "pipeline" /\ ~d.fleet => d.outcomes = <<>>
        BY <2>4, <3>1 DEF MovesInPipeline, AccountInv, SameOutcomes, SameRequest
      <3> QED
        BY <3>1, <3>2, <3>3 DEF AccountInv, SameOutcomes, SameRequest, OnServer
    <2>5. CASE EndsCommand
      <3>1. /\ SameOutcomes(c, d) /\ d.pc = "idle"
            /\ c.op = "apply" => d.report = "crashed" \/ (d.report = "failed" /\ ~d.fleet)
        BY <2>2, <2>5 DEF EndsCommand, OnServer, SameOutcomes, SameRequest
      <3> QED
        BY <3>1 DEF AccountInv, SameOutcomes, SameRequest, OnServer
    <2>6. CASE \E outcome \in Outcomes : EndsJob(outcome)
      <3>1. PICK outcome \in Outcomes : EndsJob(outcome)
        BY <2>6
      <3>2. /\ JobOver(c, d, outcome) /\ c.op = "apply"
            /\ Len(c.outcomes) = c.at - 1
            /\ ~(c.fleet /\ c.continue) => "failed" \notin Range(c.outcomes)
        BY <2>1, <2>2, <3>1 DEF EndsJob, AccountInv
      <3>3. /\ d.outcomes = Append(c.outcomes, outcome)
            /\ SameRequest(c, d)
        BY <3>2 DEF JobOver
      <3>4. /\ d.outcomes \in Seq(Outcomes) /\ Len(d.outcomes) = c.at
        BY <2>2, <3>2, <3>3
      <3>5. Range(d.outcomes) = Range(c.outcomes) \cup {outcome}
        <4>1. c.outcomes \in Seq(Range(c.outcomes))
          BY <2>2, OwnSequence
        <4> HIDE DEF c, d
        <4> QED
          BY <3>3, <4>1, GrowingSequence
      <3>6. /\ d.op = "apply" /\ d.jobs = c.jobs /\ d.fleet = c.fleet
            /\ d.continue = c.continue /\ Len(d.outcomes) <= Len(d.jobs)
        BY <2>2, <3>2, <3>3, <3>4 DEF SameRequest
      <3>7. CASE d.pc = "idle" /\ d.report = "failed" /\ ~(c.fleet /\ c.continue)
        BY <3>4, <3>6, <3>7 DEF AccountInv, OnServer
      <3>8. CASE /\ outcome = "failed" => c.fleet /\ c.continue
                 /\ c.at = Len(c.jobs) /\ d.pc = "idle"
                 /\ d.report = IF "failed" \in Range(d.outcomes) THEN "failed" ELSE "ok"
        BY <3>4, <3>6, <3>8 DEF AccountInv, OnServer
      <3>9. CASE /\ outcome = "failed" => c.fleet /\ c.continue
                 /\ c.at # Len(c.jobs) /\ d.at = c.at + 1
                 /\ d.pc = IF c.fleet THEN "pipeline" ELSE "remote"
        <4>1. /\ Len(d.outcomes) = d.at - 1
              /\ d.pc = "remote" \/ (d.pc = "pipeline" /\ d.fleet)
          BY <2>2, <3>4, <3>6, <3>9
        <4>2. ~(d.fleet /\ d.continue) => "failed" \notin Range(d.outcomes)
          BY <3>2, <3>5, <3>6, <3>9
        <4> QED
          BY <3>4, <3>6, <4>1, <4>2 DEF AccountInv, OnServer
      <3> QED
        BY <3>2, <3>7, <3>8, <3>9 DEF JobOver
    <2> QED
      BY <1>5, <2>3, <2>4, <2>5, <2>6 DEF GoesOn
  <1> QED
    BY <1>3, <1>4, <1>5, OutcomeSteps

-----------------------------------------------------------------------------
(* What has been applied and recorded.                                     *)

(* A job's server has its key, its users the password of the command.      *)
IsApplied(job) ==
  /\ job.kind = "bootstrap" => deployed[job.host] # NoKey
  /\ job.secret = "user" => password[job.host] = Secret

IsShown(job, id) ==
  LastShow(rows, Writes(job, id), Len(Writes(job, id)))

AppliedInv ==
  /\ command.pc \in {"local", "record"} /\ ~command.failed => IsApplied(Job)
  /\ command.pc = "record" => ~command.failed

KeysGiven ==
  \A i \in Past(command) :
    command.jobs[i].kind = "bootstrap" => command.keys[i] # NoKey

PasswordInv == password = [h \in Hosts |-> password[h]]

(* What an outcome says of its job: of one that is alone, that it shows.   *)
IsRight(outcome, job, id, alone) ==
  outcome # "failed" =>
    /\ IsApplied(job)
    /\ outcome = "success" =>
         RecordedIn(rows, job, id) /\ (alone => IsShown(job, id))

RunOf(i) == [number |-> commands, at |-> i]

OutcomeInv ==
  \A i \in DOMAIN command.outcomes :
    IsRight(command.outcomes[i], command.jobs[i], RunOf(i), Len(command.jobs) = 1)

(* A password is set by an apply, and is that of its command.              *)
LEMMA PasswordSteps ==
  ASSUME [Next]_vars
  PROVE  \/ password' = password
         \/ /\ Remote /\ (Job.secret = "user" \/ password[Job.host] = 0)
            /\ password' = [password EXCEPT ![Job.host] = Secret]
  <1>1. CASE Remote
    BY <1>1 DEF Remote, Applied, servers
  <1>2. CASE \E c \in situation.choices : Begin(c)
    BY <1>2 DEF Begin, servers
  <1>3. CASE Pipeline \/ LocalStep \/ LocalStepsDone \/ Record \/ Recorded
    BY <1>3 DEF Pipeline, LocalStep, LocalStepsDone, Record, Recorded, servers
  <1>4. CASE RemoveLocal \/ RemoveInventory \/ Removed \/ TunnelUp \/ TunnelDown
    BY <1>4 DEF RemoveLocal, RemoveInventory, Removed, TunnelUp, TunnelDown, servers
  <1>5. CASE Crash \/ CrashInInit \/ UNCHANGED vars
    BY <1>5 DEF Crash, CrashInInit, vars, servers
  <1> QED
    BY <1>1, <1>2, <1>3, <1>4, <1>5 DEF Next, Progress

(* Nobody bootstraps a host without a key.                                 *)
LEMMA KeysGivenStep ==
  ASSUME ControlInv, ActiveInv, KeysGiven, [Next]_vars
  PROVE  KeysGiven'
  <1> SUFFICES ASSUME NEW i \in Past(command'), command'.jobs[i].kind = "bootstrap"
               PROVE  command'.keys[i] # NoKey
    BY DEF KeysGiven
  <1>1. /\ command'.jobs = command.jobs
        /\ \/ i \in Past(command) /\ command'.keys[i] = command.keys[i]
           \/ Pipeline /\ i = command.at /\ command'.keys[i] = KeyOf(Job)
    BY PastSteps
  <1>2. CASE i \in Past(command) /\ command'.keys[i] = command.keys[i]
    BY <1>1, <1>2 DEF KeysGiven
  <1>3. CASE Pipeline /\ i = command.at /\ command'.keys[i] = KeyOf(Job)
    <2>1. Job.kind = "bootstrap"
      BY <1>1, <1>3 DEF Job
    <2> QED
      BY <1>3, <2>1, KeysOfJob
  <1> QED
    BY <1>1, <1>2, <1>3

(* Nothing else than the next command takes away what was applied.         *)
LEMMA StaysApplied ==
  ASSUME ControlInv, CountersInv, KeysGiven, DeployedInv, PasswordInv, [Next]_vars,
         commands' = commands, command'.rotate = command.rotate,
         NEW job, job.host \in Hosts, IsApplied(job)
  PROVE  IsApplied(job)'
  <1>1. Secret' = Secret /\ Secret # 0
    BY DEF Secret, CountersInv
  <1>2. Remote => Job.host \in Hosts /\ (Job.kind = "bootstrap" => Key # NoKey)
    <2> SUFFICES ASSUME Remote
                 PROVE  Job.host \in Hosts /\ (Job.kind = "bootstrap" => Key # NoKey)
      OBVIOUS
    <2>1. command.pc = "remote" /\ command.pc \in OnServer
      BY DEF Remote, OnServer
    <2> QED
      BY <2>1, JobAtHand, AppliedIsPast DEF KeysGiven, Job, Key
  <1>3. job.kind = "bootstrap" => deployed'[job.host] # NoKey
    BY <1>2, DeployedSteps DEF IsApplied, DeployedInv
  <1>4. job.secret = "user" => password'[job.host] = Secret
    BY <1>1, <1>2, PasswordSteps DEF IsApplied, PasswordInv
  <1> QED
    BY <1>1, <1>3, <1>4 DEF IsApplied

(* What is deployed and set is so for each host.                           *)
LEMMA ServersInvStep ==
  ASSUME DeployedInv, PasswordInv, [Next]_vars
  PROVE  DeployedInv' /\ PasswordInv'
  <1>1. Hosts' = Hosts
    BY SituationStays
  <1>2. DeployedInv'
    BY <1>1, DeployedSteps DEF DeployedInv
  <1>3. PasswordInv'
    BY <1>1, PasswordSteps DEF PasswordInv
  <1> QED
    BY <1>2, <1>3

(* A command goes on with what it was given.                               *)
LEMMA RequestStays ==
  ASSUME ControlInv, [Next]_vars, command.pc # "idle"
  PROVE  commands' = commands /\ SameRequest(command, command')
  <1>1. CASE GoesOn
    BY <1>1 DEF GoesOn, StaysAtJob, MovesInPipeline, EndsCommand, EndsJob, JobOver,
                SameOutcomes
  <1>2. CASE UNCHANGED vars
    BY <1>2 DEF vars, SameRequest
  <1> QED
    BY <1>1, <1>2, OutcomeSteps DEF Begin

(* A job that has not failed on the server is applied.                     *)
LEMMA AppliedInvStep ==
  ASSUME ControlInv, CountersInv, KeysGiven, DeployedInv, PasswordInv, AppliedInv,
         [Next]_vars
  PROVE  AppliedInv'
  <1> SUFFICES ASSUME command'.pc \in {"local", "record"}
               PROVE  AppliedInv'
    BY DEF AppliedInv
  <1> SUFFICES ASSUME ~command'.failed \/ command'.pc = "record"
               PROVE  ~command'.failed /\ IsApplied(Job)'
    BY DEF AppliedInv
  <1>1. ASSUME command.pc \in OnServer
        PROVE  /\ command.pc # "idle" /\ Job.host \in Hosts
               /\ commands' = commands /\ SameRequest(command, command')
    BY <1>1, JobAtHand, RequestStays DEF OnServer
  <1>2. CASE Remote
    <2>1. command.pc \in OnServer
      BY <1>2 DEF Remote, OnServer
    <2>2. command'.pc = "local"
      <3>1. command'.pc = "record" => LocalStepsDone \/ Record \/ UNCHANGED vars
        BY PcSteps
      <3> QED
        BY <1>2, <3>1 DEF Remote, LocalStepsDone, Record, vars
    <2>3. ~command'.failed /\ Applied(Job) /\ Job' = Job
      BY <1>2, <2>2, RemoteTakes DEF Job
    <2>4. Job.kind = "bootstrap" => Key # NoKey
      BY <2>1, AppliedIsPast DEF KeysGiven, Job, Key
    <2>5. Secret' = Secret
      BY <1>1, <2>1 DEF Secret, SameRequest
    <2>6. Job.kind = "bootstrap" => deployed'[Job.host] # NoKey
      BY <1>1, <2>1, <2>3, <2>4 DEF Applied, DeployedInv
    <2>7. Job.secret = "user" => password'[Job.host] = Secret
      BY <1>1, <2>1, <2>3 DEF Applied, PasswordInv
    <2> QED
      BY <2>3, <2>5, <2>6, <2>7 DEF IsApplied
  <1>3. CASE LocalStep \/ LocalStepsDone \/ Record
    <2>1. command.pc \in OnServer /\ command.pc \in {"local", "record"}
      BY <1>3 DEF LocalStep, LocalStepsDone, Record, OnServer
    <2>2. /\ command'.jobs = command.jobs /\ command'.at = command.at
          /\ command'.failed = command.failed /\ ~command.failed
      <3>1. CASE LocalStep
        <4>1. command'.pc = "local"
          BY <3>1, LocalStepTakes
        <4> QED
          BY <3>1, <4>1, LocalStepTakes
      <3>2. CASE LocalStepsDone
        <4>1. \A outcome : AfterJob(command, outcome).pc \notin {"local", "record"}
          BY NextJob DEF ControlInv, CommandInv
        <4> QED
          BY <3>2, <4>1, LocalStepsEnd
      <3>3. CASE Record
        BY <3>3, RecordTakes DEF AppliedInv, Record
      <3> QED
        BY <1>3, <3>1, <3>2, <3>3
    <2>3. Job' = Job /\ IsApplied(Job)
      BY <2>1, <2>2 DEF Job, AppliedInv
    <2>4. command'.rotate = command.rotate
      BY <1>1, <2>1 DEF SameRequest
    <2>5. PICK job : job.host \in Hosts /\ IsApplied(job) /\ Job' = job
      BY <1>1, <2>1, <2>3
    <2>6. IsApplied(job)'
      BY <1>1, <2>1, <2>4, <2>5, StaysApplied
    <2> QED
      BY <2>2, <2>5, <2>6 DEF IsApplied
  <1>4. CASE UNCHANGED vars
    BY <1>4 DEF vars, servers, AppliedInv, IsApplied, Job, Secret
  <1> QED
    BY <1>2, <1>3, <1>4, PcSteps

(* The tables grow.                                                        *)
LEMMA RowsStay ==
  ASSUME ControlInv, InventoryInv, [Next]_vars
  PROVE  \A t \in Tables : \A r \in rows[t] :
           \E s \in rows'[t] : s.key = r.key /\ s.val = r.val
  <1>1. CASE rows' = rows
    BY <1>1
  <1>2. CASE \E w : \E now \in Now : Upsert(w, now)
    <2>1. PICK w : \E now \in Now : Upsert(w, now)
      BY <1>2
    <2>2. PICK now \in Now : Upsert(w, now)
      BY <2>1
    <2> QED
      BY <2>2, PutRows
  <1> QED
    BY <1>1, <1>2, InventorySteps DEF Untouched, Looked, Written

(* Of what is recorded of the job at hand nothing is left.                 *)
LEMMA AllIsRecorded ==
  ASSUME ControlInv, RecordInv, Recorded, ~command.warned
  PROVE  RecordedIn(rows, Job, RunId) /\ IsShown(Job, RunId)
  <1> DEFINE W == Writes(Job, RunId)
  <1>1. /\ command.pc = "record" /\ command.todo = <<>>
        /\ Len(command.todo) = 0
    BY EmptySequence DEF Recorded
  <1>2. Job.parts \in Seq(Range(Job.parts))
    BY <1>1, JobAtHand DEF OnServer
  <1>3. Len(W) \in Nat /\ DOMAIN W = 1..Len(W)
    BY <1>2, WritesOfJob
  <1>4. PICK k \in Nat : Left(rows, W, command.todo, k)
    BY <1>1 DEF RecordInv
  <1>5. k = Len(W)
    <2> HIDE DEF W
    <2>1. k \in 0..Len(W) /\ Len(command.todo) = Len(W) - k
      BY <1>4 DEF Left
    <2>2. Len(W) - k = 0 /\ Len(W) \in Nat
      BY <1>1, <1>3, <2>1
    <2> QED
      BY <2>2
  <1>6. (\A i \in 1..Len(W) : HasIn(rows, W[i])) /\ LastShow(rows, W, Len(W))
    BY <1>4, <1>5 DEF Left
  <1> QED
    BY <1>3, <1>6 DEF RecordedIn, IsShown

(* The outcomes stay right: of the jobs that are over nothing is undone,   *)
(* and what is said of the job at hand when it ends has been done.         *)
LEMMA OutcomeInvStep ==
  ASSUME ControlInv, InventoryInv, CountersInv, RecordInv, AccountInv(command),
         KeysGiven, DeployedInv, PasswordInv, AppliedInv, OutcomeInv, [Next]_vars
  PROVE  OutcomeInv'
  <1>1. CASE \E c \in situation.choices : Begin(c)
    <2>1. command'.outcomes = <<>>
      BY <1>1 DEF Begin, NoCommand
    <2> QED
      BY <2>1 DEF OutcomeInv
  <1>2. CASE UNCHANGED vars
    BY <1>2 DEF vars, servers, inventory, OutcomeInv, IsRight, IsApplied, Secret,
                IsShown, RunOf
  <1>3. CASE GoesOn
    <2>1. /\ command.pc # "idle" /\ commands' = commands
          /\ SameRequest(command, command')
      BY <1>3, RequestStays DEF GoesOn
    <2>2. /\ command.at \in 1..Len(command.jobs) /\ Len(command.jobs) \in Nat
          /\ command.outcomes \in Seq(Outcomes)
          /\ Len(command.outcomes) \in Nat
          /\ DOMAIN command.outcomes = 1..Len(command.outcomes)
          /\ Len(command.outcomes) <= Len(command.jobs)
          /\ DOMAIN command.jobs = 1..Len(command.jobs)
      BY <2>1, JobAtHand DEF AccountInv, ControlInv, CommandInv
    <2>3. command.outcomes = <<>> \/ Len(command.outcomes) = command.at - 1
      BY <2>1 DEF AccountInv, ControlInv, CommandInv, Pcs, OnServer
    <2>4. Len(command.jobs) = 1 => DOMAIN command.outcomes = {}
      BY <2>2, <2>3
    <2>5. ASSUME NEW i \in DOMAIN command.outcomes,
                 command'.outcomes[i] = command.outcomes[i]
          PROVE  IsRight(command.outcomes[i], command.jobs[i], RunOf(i),
                         Len(command.jobs) = 1)'
      <3> SUFFICES ASSUME command.outcomes[i] # "failed"
                   PROVE  IsRight(command.outcomes[i], command.jobs[i], RunOf(i),
                                  Len(command.jobs) = 1)'
        BY <2>5 DEF IsRight
      <3>1. PICK job : /\ job = command.jobs[i] /\ job = command'.jobs[i]
                       /\ job.host \in Hosts /\ job.parts \in Seq(Range(job.parts))
        BY <2>1, <2>2 DEF SameRequest, ControlInv, CommandInv, IsJob
      <3>2. PICK id : id = RunOf(i) /\ id = RunOf(i)'
        BY <2>1 DEF RunOf
      <3>3. /\ IsApplied(job)
            /\ command.outcomes[i] = "success" => RecordedIn(rows, job, id)
        BY <3>1, <3>2 DEF OutcomeInv, IsRight
      <3>4. IsApplied(job)'
        BY <2>1, <3>1, <3>3, StaysApplied DEF SameRequest
      <3>5. command.outcomes[i] = "success" => RecordedIn(rows', job, id)
        BY <3>1, <3>3, RowsStay, StillRecorded
      <3>6. Len(command'.jobs) # 1
        BY <2>1, <2>4 DEF SameRequest
      <3> QED
        BY <2>5, <3>1, <3>2, <3>4, <3>5, <3>6 DEF IsRight
    <2>6. CASE command'.outcomes = command.outcomes
      BY <2>5, <2>6 DEF OutcomeInv
    <2>7. CASE \E outcome \in Outcomes : EndsJob(outcome)
      <3>1. PICK outcome \in Outcomes : EndsJob(outcome)
        BY <2>7
      <3>2. /\ command'.outcomes = Append(command.outcomes, outcome)
            /\ Len(command.outcomes) = command.at - 1
        BY <3>1 DEF EndsJob, JobOver, AccountInv
      <3>3. /\ DOMAIN command'.outcomes = 1..command.at
            /\ \A i \in DOMAIN command.outcomes :
                 command'.outcomes[i] = command.outcomes[i]
            /\ command'.outcomes[command.at] = outcome
        BY <2>2, <3>2
      <3>4. PICK n : n = command.at
        OBVIOUS
      <3>5. PICK job : job = Job /\ job = command.jobs[n] /\ job = command'.jobs[n]
        BY <2>1, <3>4 DEF Job, SameRequest
      <3>6. PICK id : id = RunId /\ id = RunOf(n)'
        BY <2>1, <3>4 DEF RunId, RunOf
      <3>7. ASSUME outcome # "failed"
            PROVE  /\ IsApplied(job)'
                   /\ outcome = "success" =>
                        RecordedIn(rows', job, id) /\ IsShown(job, id)'
        <4>1. Recorded /\ (outcome = "success" => ~command.warned)
          BY <3>1, <3>7 DEF EndsJob
        <4>2. command.pc = "record" /\ command.pc \in OnServer /\ rows' = rows
          BY <4>1 DEF Recorded, OnServer, inventory
        <4>3. IsApplied(job) /\ job.host \in Hosts
          BY <3>5, <4>2, JobAtHand DEF AppliedInv
        <4>4. IsApplied(job)'
          BY <2>1, <4>3, StaysApplied DEF SameRequest
        <4>5. outcome = "success" => RecordedIn(rows, job, id) /\ IsShown(job, id)
          BY <3>5, <3>6, <4>1, AllIsRecorded
        <4> QED
          BY <4>2, <4>4, <4>5 DEF IsShown
      <3>8. IsRight(command.outcomes[n], command.jobs[n], RunOf(n),
                    Len(command.jobs) = 1)'
        BY <3>3, <3>4, <3>5, <3>6, <3>7 DEF IsRight
      <3>9. \A i \in DOMAIN command'.outcomes : i = n \/ i \in DOMAIN command.outcomes
        BY <2>2, <3>2, <3>3, <3>4
      <3> QED
        BY <2>5, <3>3, <3>8, <3>9 DEF OutcomeInv
    <2> QED
      BY <1>3, <2>6, <2>7 DEF GoesOn, StaysAtJob, MovesInPipeline, EndsCommand, SameOutcomes
  <1> QED
    BY <1>1, <1>2, <1>3, OutcomeSteps

(* Rows of services, all but the last of what is recorded of a job that is *)
(* no bootstrap, are filed under the name of its host alone.               *)
LEMMA ServiceRows ==
  ASSUME NEW job, job.parts \in Seq(Range(job.parts)), job.kind # "bootstrap", NEW id
  PROVE  LET R == ResultWrites(job)
             W == Writes(job, id)
         IN  /\ Len(W) \in Nat /\ W[Len(W)].table = "run"
             /\ DOMAIN R = 1..(Len(W) - 1)
             /\ \A i \in DOMAIN R : /\ W[i] = R[i] /\ R[i].table = "service"
                                    /\ R[i].key[1] = Flat(job.host)
  <1> DEFINE R == ResultWrites(job)
             Good(w) == w.table = "service" /\ w.key[1] = Flat(job.host)
  <1>1. ASSUME NEW name, NEW rev
        PROVE  Good(Row(job, name, rev))
    BY DEF Row, Write
  <1>2. R \in Seq(Range(R)) /\ \A i \in DOMAIN R : Good(R[i])
    <2>1. CASE R = SpecWrites(job)
      <3> DEFINE w == Row(job, "spec", job.rev)
      <3>1. R = <<w>> /\ Good(w)
        BY <1>1, <2>1 DEF SpecWrites
      <3> HIDE DEF R, w, Good
      <3>2. DOMAIN R = {1} /\ R[1] = w
        BY <3>1
      <3>3. R \in Seq(Range(R))
        BY <3>1, <3>2 DEF Range
      <3> QED
        BY <3>1, <3>2, <3>3
    <2>2. CASE R = ServiceWrites(job) \/ R = StackWrites(job)
      <3> DEFINE n == Len(job.parts)
      <3>1. n \in Nat /\ DOMAIN job.parts = 1..n
        OBVIOUS
      <3>2. /\ DOMAIN R = 1..n /\ R = [i \in 1..n |-> R[i]]
            /\ \A i \in 1..n : \E name, rev : R[i] = Row(job, name, rev)
        BY <2>2, <3>1 DEF ServiceWrites, StackWrites
      <3>3. \A i \in DOMAIN R : Good(R[i])
        <4> HIDE DEF R, Good
        <4> QED
          BY <1>1, <3>2
      <3>4. R \in Seq(Range(R))
        <4> HIDE DEF R
        <4>1. R \in [1..n -> Range(R)]
          BY <3>2 DEF Range
        <4> QED
          BY <3>1, <4>1, SeqDef
      <3> QED
        BY <3>3, <3>4
    <2> QED
      BY <2>1, <2>2 DEF ResultWrites
  <1>3. Writes(job, id) = Append(R, Write("run", id, job))
    BY DEF Writes
  <1> HIDE DEF R, Good
  <1>4. /\ Len(R) \in Nat /\ DOMAIN R = 1..Len(R)
        /\ Len(Writes(job, id)) = Len(R) + 1
        /\ \A i \in DOMAIN R : Writes(job, id)[i] = R[i]
        /\ Writes(job, id)[Len(R) + 1] = Write("run", id, job)
    BY <1>2, <1>3, GrowingSequence
  <1>5. Write("run", id, job).table = "run"
    BY DEF Write
  <1>6. /\ Len(Writes(job, id)) \in Nat
        /\ Writes(job, id)[Len(Writes(job, id))].table = "run"
        /\ DOMAIN R = 1..(Len(Writes(job, id)) - 1)
    BY <1>4, <1>5
  <1> QED
    BY <1>2, <1>4, <1>6 DEF R, Good

(* What is said to be recorded of a job that was alone can be listed.      *)
LEMMA ServicesAreShown ==
  ASSUME NEW job, job.parts \in Seq(Range(job.parts)), job.kind # "bootstrap",
         NEW id, IsShown(job, id), Flat(job.host) = job.host,
         NEW k \in DOMAIN ResultWrites(job),
         \A m \in DOMAIN ResultWrites(job) :
           m > k => ResultWrites(job)[m].key # ResultWrites(job)[k].key
  PROVE  <<ResultWrites(job)[k].key[2], ResultWrites(job)[k].val>> \in Shown(job.host)
  <1> DEFINE R == ResultWrites(job)
             W == Writes(job, id)
             n == Len(W)
  <1>1. /\ n \in Nat /\ W[n].table = "run" /\ DOMAIN R = 1..(n - 1)
        /\ \A i \in DOMAIN R : /\ W[i] = R[i] /\ R[i].table = "service"
                               /\ R[i].key[1] = Flat(job.host)
    BY ServiceRows
  <1>2. LastShow(rows, W, n)
    BY DEF IsShown
  <1> HIDE DEF R, W, n
  <1>3. k \in 1..n /\ W[k] = R[k] /\ W[k].table = "service"
    BY <1>1 DEF R
  <1>4. \A m \in 1..n : m > k /\ W[m].table = "service" => W[m].key # W[k].key
    <2> SUFFICES ASSUME NEW m \in 1..n, m > k, W[m].table = "service"
                 PROVE  W[m].key # W[k].key
      OBVIOUS
    <2>1. m # n
      BY <1>1
    <2>2. m \in DOMAIN R
      BY <1>1, <2>1
    <2> QED
      BY <1>1, <1>3, <2>2 DEF R
  <1>5. <<W[k].key, W[k].val>> \in Entries(rows["service"])
    BY <1>2, <1>3, <1>4 DEF LastShow
  <1>6. <<R[k].key, R[k].val>> \in Entries(rows["service"])
        /\ R[k].key[1] = job.host
    BY <1>1, <1>3, <1>5 DEF R
  <1>7. PICK r \in View(rows["service"]) : r.key = R[k].key /\ r.val = R[k].val
    BY <1>6 DEF Entries
  <1> QED
    BY <1>6, <1>7 DEF Shown, R

ReportInv ==
  /\ AccountInv(command)
  /\ KeysGiven /\ DeployedInv /\ PasswordInv /\ AppliedInv /\ OutcomeInv

(* All of it at once.                                                      *)
LEMMA ReportsStay == Spec => [](LocalInv /\ ReportInv)
  <1>1. Init => ReportInv
    <2> SUFFICES ASSUME Init
                 PROVE  ReportInv
      OBVIOUS
    <2>1. /\ command.pc = "idle" /\ command.outcomes = <<>> /\ command.jobs = <<>>
          /\ command.op = "none"
          /\ deployed = [h \in Hosts |-> NoKey]
          /\ password = [h \in Hosts |-> 0]
      BY DEF Init, NoCommand
    <2>2. AccountInv(command)
      BY <2>1 DEF AccountInv, OnServer
    <2>3. Past(command) = {} /\ DOMAIN command.outcomes = {}
      BY <2>1 DEF Past, OnServer
    <2> QED
      BY <2>1, <2>2, <2>3
         DEF ReportInv, KeysGiven, DeployedInv, PasswordInv, AppliedInv, OutcomeInv
  <1>2. LocalInv /\ ReportInv /\ [Next]_vars => ReportInv'
    <2> SUFFICES ASSUME LocalInv, ReportInv, [Next]_vars
                 PROVE  ReportInv'
      OBVIOUS
    <2>1. /\ ControlInv /\ InventoryInv /\ CountersInv /\ RecordInv /\ ActiveInv
          /\ AccountInv(command) /\ KeysGiven /\ DeployedInv /\ PasswordInv
          /\ AppliedInv /\ OutcomeInv
      BY DEF LocalInv, TypeInv, ReportInv
    <2>2. AccountInv(command')
      BY <2>1, AccountInvStep
    <2>3. KeysGiven' /\ DeployedInv' /\ PasswordInv'
      BY <2>1, KeysGivenStep, ServersInvStep
    <2>4. AppliedInv' /\ OutcomeInv'
      BY <2>1, AppliedInvStep, OutcomeInvStep
    <2> QED
      BY <2>2, <2>3, <2>4 DEF ReportInv, AccountInv
  <1> QED
    BY <1>1, <1>2, LocalStays, PTL DEF Spec

(* An apply that reports success has applied every one of its specs, and   *)
(* recorded those it did not warn about, and neither it nor a fleet told   *)
(* to continue has left one out: whatever failed or was interrupted before.*)
THEOREM ReportsAreRight == Spec => []ReportsAreTrue
  <1>1. ASSUME LocalInv, ReportInv
        PROVE  ReportsAreTrue
    <2>1. /\ command.pc = "idle" /\ command.op = "apply"
          /\ \/ command.report = "ok"
             \/ command.report = "failed" /\ command.fleet /\ command.continue
          => Len(command.outcomes) = Len(command.jobs)
      BY <1>1 DEF ReportInv, AccountInv
    <2>2. ASSUME command.pc = "idle", command.op = "apply", command.report = "ok",
                 NEW i \in DOMAIN command.jobs, NEW job, job = command.jobs[i],
                 NEW id, id = [number |-> commands, at |-> i]
          PROVE  /\ command.outcomes[i] # "failed" /\ IsApplied(job)
                 /\ command.outcomes[i] = "success" =>
                      /\ RecordedIn(rows, job, id)
                      /\ Len(command.jobs) = 1 => IsShown(job, id)
                 /\ job.host \in Hosts /\ job.parts \in Seq(Range(job.parts))
      <3>1. /\ command.outcomes \in Seq(Outcomes)
            /\ command.jobs \in Seq(Range(command.jobs))
            /\ Len(command.outcomes) = Len(command.jobs)
            /\ "failed" \notin Range(command.outcomes)
            /\ IsJob(command.jobs[i])
        BY <1>1, <2>2 DEF ReportInv, AccountInv, LocalInv, TypeInv, ControlInv, CommandInv
      <3>2. i \in DOMAIN command.outcomes
        BY <3>1
      <3>3. command.outcomes[i] # "failed"
        BY <3>1, <3>2 DEF Range
      <3> QED
        BY <1>1, <2>2, <3>1, <3>2, <3>3 DEF ReportInv, OutcomeInv, IsRight, RunOf, IsJob
    <2>3. ASSUME NEW h \in Hosts, h.provider = ""
          PROVE  Flat(h) = h
      BY <1>1, <2>3, HostsAssumption DEF LocalInv, TypeInv, ControlInv, Flat, Hosts
    <2>4. ASSUME command.pc = "idle", command.op = "apply", command.report = "ok",
                 NEW i \in DOMAIN command.jobs, NEW job, job = command.jobs[i],
                 NEW id, id = [number |-> commands, at |-> i]
          PROVE  /\ command.outcomes[i] # "failed"
                 /\ job.kind = "bootstrap" => deployed[job.host] # NoKey
                 /\ job.secret = "user" => password[job.host] = Secret
                 /\ command.outcomes[i] = "success" =>
                      /\ IsRecorded(job, id)
                      /\ Len(command.jobs) = 1 /\ job.host.provider = ""
                           /\ job.kind # "bootstrap" =>
                           \A k \in DOMAIN ResultWrites(job) :
                             (\A m \in DOMAIN ResultWrites(job) :
                                m > k =>
                                  ResultWrites(job)[m].key # ResultWrites(job)[k].key) =>
                             <<ResultWrites(job)[k].key[2], ResultWrites(job)[k].val>>
                               \in Shown(job.host)
      <3>1. /\ command.outcomes[i] # "failed" /\ IsApplied(job)
            /\ command.outcomes[i] = "success" =>
                 /\ RecordedIn(rows, job, id)
                 /\ Len(command.jobs) = 1 => IsShown(job, id)
            /\ job.host \in Hosts /\ job.parts \in Seq(Range(job.parts))
        BY <2>2, <2>4
      <3>2. RecordedIn(rows, job, id) => IsRecorded(job, id)
        BY DEF IsRecorded, RecordedIn, HasIn
      <3>3. job.host.provider = "" => Flat(job.host) = job.host
        BY <2>3, <3>1
      <3> QED
        BY <3>1, <3>2, <3>3, ServicesAreShown DEF IsApplied
    <2> QED
      BY <2>1, <2>4 DEF ReportsAreTrue
  <1>2. LocalInv /\ ReportInv => ReportsAreTrue
    BY <1>1
  <1> QED
    BY <1>2, ReportsStay, PTL
=============================================================================
