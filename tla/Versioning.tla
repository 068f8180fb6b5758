---------------------------- MODULE Versioning ----------------------------
(***************************************************************************)
(* The versioned tables of the local inventory: what the triggers that     *)
(* client/loft_cli/local/ddl/versionize_system.py generates make of an     *)
(* INSERT INTO vv_<table>.  No column is update-only or ignored, so that a *)
(* row is its key and the rest of it, val.                                 *)
(***************************************************************************)
EXTENDS Naturals

Forever == 0        \* version_valid_to '9999-12-31 00:00:00'

Version(key, val, now) == [key |-> key, val |-> val, from |-> now, to |-> Forever]

(* The view vv_<table>.  (No code deletes from it.)                        *)
View(table) == {r \in table : r.to = Forever}

Entries(table) == {<<r.key, r.val>> : r \in View(table)}

CurrentOf(table, key) == {r \in View(table) : r.key = key}

(* Steps 1 and 2: the key has no current version.                          *)
IsNew(table, key) == CurrentOf(table, key) = {}

(* Step 1, has_versioning: the newest current version says otherwise.      *)
Differs(table, key, val) ==
  \E r \in CurrentOf(table, key) :
    /\ \A s \in CurrentOf(table, key) : s.from <= r.from
    /\ r.val # val

(* Mutants: the current version stays open; all there was is forgotten.    *)
ClosedNone(table, key, now) == table
ClosedForGood(table, key, now) == {r \in table : r.key # key}

(* Step 4: the end of the current version is set, and, there being no test *)
(* of version_valid_to, that of every other version of the key anew.       *)
Closed(table, key, now) ==
  {IF r.key = key THEN [r EXCEPT !.to = now] ELSE r : r \in table}

(* Steps 2 to 5.                                                           *)
Upserted(table, key, val, now) ==
  IF IsNew(table, key) THEN table \cup {Version(key, val, now)}
  ELSE IF Differs(table, key, val)
    THEN Closed(table, key, now) \cup {Version(key, val, now)}
  ELSE table

(* PRIMARY KEY (key, version_valid_from): time stamps count seconds.       *)
Raises(table, key, val, now) ==
  /\ IsNew(table, key) \/ Differs(table, key, val)
  /\ \E r \in table : r.key = key /\ r.from = now
=============================================================================
