--------------------------- MODULE WireguardStore ---------------------------
(***************************************************************************)
(* One host's entry in the local WireGuard store                           *)
(* (client/loft_cli/local/wireguard_store.py): the flat directory          *)
(* {base}/{host} and the provider's {base}/{provider}/{host}.              *)
(*                                                                         *)
(* The server's and the client's key pairs are generated, saved and read   *)
(* together, so one number stands for both; 0 is no key.  A directory      *)
(* holds the saved keys and the keys that client.conf was written for.     *)
(***************************************************************************)
EXTENDS Naturals

NoKey == 0

NoDir == [exists |-> FALSE, key |-> NoKey, conf |-> NoKey]

EmptyStore == [flat |-> NoDir, provided |-> NoDir]

StoreType(Keys) ==
  LET Dir == [exists : BOOLEAN, key : Keys, conf : Keys]
  IN  [flat : Dir, provided : Dir]

(* _wg_host_dir, with or without the spec's provider.                      *)
DirName(provider) == IF provider THEN "provided" ELSE "flat"

(* find_wg_host_dir, by host name alone: the flat directory wins.          *)
FindDir(store) == IF store.flat.exists THEN store.flat ELSE store.provided

(* Mutant: a key that is there is overwritten.                             *)
WriteAlways(old, key) == key

WriteOnce(old, key) == IF old = NoKey THEN key ELSE old

(* Mutant: keys are saved only at the end of an apply.                     *)
PersistKeysLate(store, key) == store

(* persist_wireguard_keys, which is given no provider.                     *)
PersistKeys(store, key) ==
  [store EXCEPT !.flat.exists = TRUE,
                !.flat.key = WriteOnce(@, key)]

(* save_wireguard_state: the keys are kept, client.conf is refreshed.      *)
SaveState(store, provider, key) ==
  LET name == DirName(provider)
  IN  [store EXCEPT ![name] = [exists |-> TRUE,
                               key    |-> WriteOnce(@.key, key),
                               conf   |-> key]]

(* Mutant: fresh keys, always.                                             *)
KeyForFresh(store, provider, fresh) == fresh

(* The normalizer's choice: the keys saved under the spec's own directory, *)
(* or fresh ones.                                                          *)
KeyFor(store, provider, fresh) ==
  LET saved == store[DirName(provider)].key
  IN  IF saved # NoKey THEN saved ELSE fresh
=============================================================================
