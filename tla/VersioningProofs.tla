-------------------------- MODULE VersioningProofs --------------------------
(***************************************************************************)
(* What the versioning triggers keep of a table and what they make of its  *)
(* view, for every table, key, value and time.                             *)
(***************************************************************************)
EXTENDS Versioning, TLAPS

(* A row of tv_<table>.                                                    *)
IsVersion(r) ==
  /\ r = [key |-> r.key, val |-> r.val, from |-> r.from, to |-> r.to]
  /\ r.from \in Nat

(* A key has at most one version that is open.                             *)
OneOpen(table) ==
  \A r, s \in table : r.to = Forever /\ s.to = Forever /\ r.key = s.key => r = s

WellVersioned(table) == (\A r \in table : IsVersion(r)) /\ OneOpen(table)

(* What step 4 of the trigger makes of a version is that version, ended.   *)
LEMMA EndedVersion ==
  ASSUME NEW r, IsVersion(r), NEW now
  PROVE  LET s == [r EXCEPT !.to = now]
         IN  /\ s.key = r.key /\ s.val = r.val /\ s.from = r.from /\ s.to = now
             /\ IsVersion(s)
  BY DEF IsVersion

(* A version that is put in is one, and open.                              *)
LEMMA OpenedVersion ==
  ASSUME NEW key, NEW val, NEW now \in Nat
  PROVE  LET v == Version(key, val, now)
         IN  /\ v.key = key /\ v.val = val /\ v.from = now /\ v.to = Forever
             /\ IsVersion(v)
  BY DEF Version, IsVersion

(* The versions that step 4 leaves are those there were; those of the key  *)
(* have ended.                                                             *)
LEMMA ClosedVersions ==
  ASSUME NEW table, NEW key, NEW now, \A r \in table : IsVersion(r)
  PROVE  /\ \A s \in Closed(table, key, now) :
              /\ IsVersion(s)
              /\ s.key # key => s \in table
              /\ s.key = key => s.to = now
              /\ \E r \in table : s.key = r.key /\ s.from = r.from
         /\ \A r \in table : \E s \in Closed(table, key, now) :
              /\ s.key = r.key /\ s.val = r.val /\ s.from = r.from
              /\ IF r.key = key THEN s.to = now ELSE s = r
  <1>1. ASSUME NEW s \in Closed(table, key, now)
        PROVE  /\ IsVersion(s)
               /\ s.key # key => s \in table
               /\ s.key = key => s.to = now
               /\ \E r \in table : s.key = r.key /\ s.from = r.from
    <2>1. PICK r \in table : s = IF r.key = key THEN [r EXCEPT !.to = now] ELSE r
      BY DEF Closed
    <2>2. IsVersion(r)
      OBVIOUS
    <2> QED
      BY <2>1, <2>2, EndedVersion
  <1>2. ASSUME NEW r \in table
        PROVE  \E s \in Closed(table, key, now) :
                 /\ s.key = r.key /\ s.val = r.val /\ s.from = r.from
                 /\ IF r.key = key THEN s.to = now ELSE s = r
    <2> DEFINE s == IF r.key = key THEN [r EXCEPT !.to = now] ELSE r
    <2>1. s \in Closed(table, key, now)
      BY DEF Closed
    <2>2. /\ s.key = r.key /\ s.val = r.val /\ s.from = r.from
          /\ IF r.key = key THEN s.to = now ELSE s = r
      BY EndedVersion
    <2> QED
      BY <2>1, <2>2
  <1> QED
    BY <1>1, <1>2

(* An upsert keeps a table well versioned.                                 *)
LEMMA UpsertKeepsVersions ==
  ASSUME NEW table, NEW key, NEW val, NEW now \in Nat,
         now # Forever, WellVersioned(table)
  PROVE  WellVersioned(Upserted(table, key, val, now))
  <1> DEFINE v == Version(key, val, now)
  <1>1. v.key = key /\ v.to = Forever /\ IsVersion(v)
    BY OpenedVersion
  <1>2. CASE IsNew(table, key)
    <2>1. \A r \in table : r.to = Forever => r.key # key
      BY <1>2 DEF IsNew, CurrentOf, View
    <2>2. Upserted(table, key, val, now) = table \cup {v}
      BY <1>2 DEF Upserted
    <2> QED
      BY <1>1, <2>1, <2>2 DEF WellVersioned, OneOpen
  <1>3. CASE ~IsNew(table, key) /\ Differs(table, key, val)
    <2>1. \A s \in Closed(table, key, now) :
             IsVersion(s) /\ (s.to = Forever => s \in table /\ s.key # key)
      BY ClosedVersions DEF WellVersioned
    <2>2. Upserted(table, key, val, now) = Closed(table, key, now) \cup {v}
      BY <1>3 DEF Upserted
    <2> QED
      BY <1>1, <2>1, <2>2 DEF WellVersioned, OneOpen
  <1>4. CASE ~IsNew(table, key) /\ ~Differs(table, key, val)
    BY <1>4 DEF Upserted
  <1> QED
    BY <1>2, <1>3, <1>4

(* An upsert puts one pair into what the view shows, in place of what it   *)
(* showed of that key.                                                     *)
LEMMA UpsertPuts ==
  ASSUME NEW table, NEW key, NEW val, NEW now \in Nat,
         now # Forever, WellVersioned(table)
  PROVE  Entries(Upserted(table, key, val, now)) =
           {e \in Entries(table) : e[1] # key} \cup {<<key, val>>}
  <1> DEFINE v == Version(key, val, now)
             table2 == Upserted(table, key, val, now)
             Others == {r \in table : r.to = Forever /\ r.key # key}
  <1>1. v.key = key /\ v.val = val /\ v.to = Forever
    BY OpenedVersion
  <1>2. \A r \in table : IsVersion(r)
    BY DEF WellVersioned
  <1>3. {e \in Entries(table) : e[1] # key} = {<<r.key, r.val>> : r \in Others}
    BY DEF Entries, View
  <1>4. CASE IsNew(table, key)
    <2>1. View(table2) = Others \cup {v}
      BY <1>1, <1>4 DEF IsNew, CurrentOf, View, Upserted
    <2> QED
      BY <1>1, <1>3, <2>1 DEF Entries
  <1>5. CASE ~IsNew(table, key) /\ Differs(table, key, val)
    <2>1. table2 = Closed(table, key, now) \cup {v}
      BY <1>5 DEF Upserted
    <2>2. {s \in Closed(table, key, now) : s.to = Forever} = Others
      <3>1. \A s \in Closed(table, key, now) :
               s.to = Forever => s \in table /\ s.key # key
        BY <1>2, ClosedVersions
      <3>2. \A r \in Others : r \in Closed(table, key, now)
        BY DEF Closed
      <3> QED
        BY <3>1, <3>2
    <2>3. View(table2) = Others \cup {v}
      BY <1>1, <2>1, <2>2 DEF View
    <2> QED
      BY <1>1, <1>3, <2>3 DEF Entries
  <1>6. CASE ~IsNew(table, key) /\ ~Differs(table, key, val)
    <2>1. table2 = table
      BY <1>6 DEF Upserted
    <2>2. PICK r \in table : r.to = Forever /\ r.key = key
      BY <1>6 DEF IsNew, CurrentOf, View
    <2>3. \A s \in table : s.to = Forever /\ s.key = key => s = r
      BY <2>2 DEF WellVersioned, OneOpen
    <2>4. r.val = val
      <3>1. r \in CurrentOf(table, key) /\ \A s \in CurrentOf(table, key) : s = r
        BY <2>2, <2>3 DEF CurrentOf, View
      <3>2. r.from <= r.from
        BY <1>2 DEF IsVersion
      <3> QED
        BY <1>6, <3>1, <3>2 DEF Differs
    <2>5. View(table) = Others \cup {r}
      BY <2>2, <2>3 DEF View
    <2> QED
      BY <1>3, <2>1, <2>2, <2>4, <2>5 DEF Entries
  <1> QED
    BY <1>4, <1>5, <1>6

(* An upsert forgets no version and opens none again; the one that it adds *)
(* is of that time.                                                        *)
LEMMA UpsertKeepsHistory ==
  ASSUME NEW table, NEW key, NEW val, NEW now \in Nat,
         now # Forever, WellVersioned(table)
  PROVE  LET table2 == Upserted(table, key, val, now)
         IN  /\ \A r \in table : \E s \in table2 :
                  /\ s.key = r.key /\ s.val = r.val /\ s.from = r.from
                  /\ r.to # Forever => s.to # Forever
             /\ \A s \in table2 :
                  \/ \E r \in table : r.key = s.key /\ r.from = s.from
                  \/ s.key = key /\ s.from = now
  <1> DEFINE v == Version(key, val, now)
             table2 == Upserted(table, key, val, now)
  <1>1. v.key = key /\ v.from = now
    BY OpenedVersion
  <1>2. \A r \in table : IsVersion(r)
    BY DEF WellVersioned
  <1>3. CASE table2 = table \cup {v}
    BY <1>1, <1>3
  <1>4. CASE table2 = Closed(table, key, now) \cup {v}
    <2>1. \A r \in table : \E s \in Closed(table, key, now) :
             /\ s.key = r.key /\ s.val = r.val /\ s.from = r.from
             /\ IF r.key = key THEN s.to = now ELSE s = r
      BY <1>2, ClosedVersions
    <2>2. \A s \in Closed(table, key, now) :
             \E r \in table : s.key = r.key /\ s.from = r.from
      BY <1>2, ClosedVersions
    <2> QED
      BY <1>1, <1>4, <2>1, <2>2
  <1>5. CASE table2 = table
    BY <1>5
  <1> QED
    BY <1>3, <1>4, <1>5 DEF Upserted

(* Every version after an upsert says what one before it said, or what was *)
(* put in; what ended, ended now.                                          *)
LEMMA UpsertOrigin ==
  ASSUME NEW table, NEW key, NEW val, NEW now \in Nat,
         now # Forever, WellVersioned(table)
  PROVE  /\ \A s \in Upserted(table, key, val, now) :
              /\ s \in table \/ s.to \in {now, Forever}
              /\ \/ s.key = key /\ s.val = val
                 \/ \E r \in table : r.key = s.key /\ r.val = s.val
         /\ \E s \in Upserted(table, key, val, now) : s.key = key /\ s.val = val
  <1> DEFINE v == Version(key, val, now)
             table2 == Upserted(table, key, val, now)
  <1>1. v.key = key /\ v.val = val /\ v.to = Forever
    BY OpenedVersion
  <1>2. \A r \in table : IsVersion(r)
    BY DEF WellVersioned
  <1>3. ASSUME NEW s \in Closed(table, key, now)
        PROVE  /\ s \in table \/ s.to = now
               /\ \E r \in table : r.key = s.key /\ r.val = s.val
    <2>1. PICK r \in table : s = IF r.key = key THEN [r EXCEPT !.to = now] ELSE r
      BY DEF Closed
    <2>2. IsVersion(r)
      BY <1>2
    <2> QED
      BY <2>1, <2>2, EndedVersion
  <1>4. \/ table2 = table \/ table2 = table \cup {v}
        \/ table2 = Closed(table, key, now) \cup {v}
    BY DEF Upserted
  <1>5. \A s \in table2 :
          /\ s \in table \/ s.to \in {now, Forever}
          /\ \/ s.key = key /\ s.val = val
             \/ \E r \in table : r.key = s.key /\ r.val = s.val
    <2> HIDE DEF table2, v
    <2> QED
      BY <1>1, <1>3, <1>4
  <1>6. \E s \in table2 : s.key = key /\ s.val = val
    <2>1. <<key, val>> \in Entries(table2)
      BY UpsertPuts
    <2> QED
      BY <2>1 DEF Entries, View
  <1> QED
    BY <1>5, <1>6

(* An upsert leaves what is current of other keys as it is; of its own,    *)
(* nothing is current but what it says.                                    *)
LEMMA UpsertCurrent ==
  ASSUME NEW table, NEW key, NEW val, NEW now \in Nat,
         now # Forever, WellVersioned(table)
  PROVE  /\ \A k : k # key =>
              CurrentOf(Upserted(table, key, val, now), k) = CurrentOf(table, k)
         /\ \A r \in CurrentOf(Upserted(table, key, val, now), key) : r.val = val
  <1> DEFINE v == Version(key, val, now)
             table2 == Upserted(table, key, val, now)
  <1>1. v.key = key /\ v.val = val /\ v.to = Forever
    BY OpenedVersion
  <1>2. \A r \in table : IsVersion(r)
    BY DEF WellVersioned
  <1>3. CASE IsNew(table, key)
    <2>1. table2 = table \cup {v}
      BY <1>3 DEF Upserted
    <2>2. \A r \in table : r.to = Forever => r.key # key
      BY <1>3 DEF IsNew, CurrentOf, View
    <2> HIDE DEF table2, v
    <2>3. \A k : k # key => CurrentOf(table2, k) = CurrentOf(table, k)
      BY <1>1, <2>1 DEF CurrentOf, View
    <2>4. \A r \in CurrentOf(table2, key) : r.val = val
      BY <1>1, <2>1, <2>2 DEF CurrentOf, View
    <2> QED
      BY <2>3, <2>4 DEF table2
  <1>4. CASE ~IsNew(table, key) /\ Differs(table, key, val)
    <2> DEFINE closed == Closed(table, key, now)
    <2>1. table2 = closed \cup {v}
      BY <1>4 DEF Upserted
    <2>2. /\ \A s \in closed : (s.key # key => s \in table) /\ (s.key = key => s.to = now)
          /\ \A r \in table : r.key # key => r \in closed
      <3>1. \A s \in closed : (s.key # key => s \in table) /\ (s.key = key => s.to = now)
        BY <1>2, ClosedVersions
      <3>2. \A r \in table : r.key # key => r \in closed
        BY DEF Closed
      <3> QED
        BY <3>1, <3>2
    <2> HIDE DEF table2, v, closed
    <2>3. \A k : k # key => CurrentOf(table2, k) = CurrentOf(table, k)
      BY <1>1, <2>1, <2>2 DEF CurrentOf, View
    <2>4. \A r \in CurrentOf(table2, key) : r.val = val
      BY <1>1, <2>1, <2>2 DEF CurrentOf, View
    <2> QED
      BY <2>3, <2>4 DEF table2
  <1>5. CASE ~IsNew(table, key) /\ ~Differs(table, key, val)
    <2>1. table2 = table
      BY <1>5 DEF Upserted
    <2>2. ASSUME NEW r \in CurrentOf(table, key)
          PROVE  r.val = val
      <3>1. \A s \in CurrentOf(table, key) : s = r
        BY DEF CurrentOf, View, WellVersioned, OneOpen
      <3>2. r.from <= r.from
        <4>1. r \in table
          BY DEF CurrentOf, View
        <4> QED
          BY <1>2, <4>1 DEF IsVersion
      <3> QED
        BY <1>5, <3>1, <3>2 DEF Differs
    <2> QED
      BY <2>1, <2>2
  <1> QED
    BY <1>3, <1>4, <1>5
=============================================================================
