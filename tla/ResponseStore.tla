---------------------------- MODULE ResponseStore ----------------------------
(***************************************************************************)
(* The responses of the request builder (_jotai/http-res.ts): a map in     *)
(* memory in front of an IndexedDB store of a bounded size. IndexedDB      *)
(* opens the database and runs the reads and writes in the order they were *)
(* asked for; a count and the deletion that follows from it are            *)
(* transactions of their own.                                              *)
(***************************************************************************)
EXTENDS Naturals, SequencesExt, Functions

CONSTANT MaxStoredResponses

VARIABLES
  responseMap,  \* responseMapAtom: from keys to states
  db,           \* the store, least recently written first
  ops,          \* reads and writes asked for
  counting,     \* counts asked for by writes that are done
  deleting      \* deletions asked for by counts: how many entries each

storeVars == <<responseMap, db, ops, counting, deleting>>

NoData == 0
EmptyState == [loading |-> FALSE, error |-> FALSE, data |-> NoData]

StateIn(map, key) == IF key \in DOMAIN map THEN map[key] ELSE EmptyState
With(map, key, state) ==
  [k \in DOMAIN map \cup {key} |-> IF k = key THEN state ELSE map[k]]

Put(key, state) == [op |-> "put", key |-> key, state |-> state, map |-> <<>>]
Get(key) == [op |-> "get", key |-> key, state |-> EmptyState, map |-> responseMap]

StoreInit ==
  /\ responseMap = <<>> /\ db = <<>> /\ ops = <<>>
  /\ counting = 0 /\ deleting = <<>>

\* A page load: memory and what was under way are gone; the viewers that are
\* shown ask for their responses.
LoadStore(keys) ==
  /\ responseMap' = <<>> /\ counting' = 0 /\ deleting' = <<>>
  /\ ops' = [i \in DOMAIN keys |-> [Get(keys[i]) EXCEPT !.map = <<>>]]
  /\ UNCHANGED db

\* A mutant: the state before the update is saved.
UpdateSavingOld(key, state) ==
  /\ responseMap' = With(responseMap, key, state)
  /\ ops' = Append(ops, Put(key, StateIn(responseMap, key)))
  /\ UNCHANGED <<db, counting, deleting>>

\* updateResponseStateAtom.
UpdateResponseState(key, state) ==
  /\ responseMap' = With(responseMap, key, state)
  /\ ops' = Append(ops, Put(key, state))
  /\ UNCHANGED <<db, counting, deleting>>

\* getResponseStateAtom up to its await: what is in memory is enough. The read
\* carries the map as it is now.
GetResponseState(key) ==
  /\ ops' = IF key \in DOMAIN responseMap THEN ops ELSE Append(ops, Get(key))
  /\ UNCHANGED <<responseMap, db, counting, deleting>>

\* saveResponseToDB. The store has one entry for a key, which moves to the end of
\* the timestamp index.
RunPut ==
  /\ ops # <<>> /\ Head(ops).op = "put"
  /\ LET o == Head(ops)
         old == {i \in DOMAIN db : db[i].key = o.key}
         others == IF old = {} THEN db ELSE RemoveAt(db, CHOOSE i \in old : TRUE)
     IN  db' = Append(others, [key |-> o.key, state |-> o.state])
  /\ ops' = Tail(ops)
  /\ counting' = counting + 1
  /\ UNCHANGED <<responseMap, deleting>>

\* getResponseStateAtom after its await: the map of before replaces the map.
RunGet ==
  /\ ops # <<>> /\ Head(ops).op = "get"
  /\ LET o == Head(ops)
         found == {i \in DOMAIN db : db[i].key = o.key}
     IN  responseMap' = IF found = {} THEN responseMap
                        ELSE With(o.map, o.key, db[CHOOSE i \in found : TRUE].state)
  /\ ops' = Tail(ops)
  /\ UNCHANGED <<db, counting, deleting>>

\* A mutant: the count is compared as if the new entry were not in it.
CountOneMore ==
  /\ counting > 0 /\ counting' = counting - 1
  /\ deleting' = IF Len(db) > MaxStoredResponses + 1
                   THEN Append(deleting, Len(db) - MaxStoredResponses - 1) ELSE deleting
  /\ UNCHANGED <<responseMap, db, ops>>

\* checkAndCleanupOldEntries.
CountEntries ==
  /\ counting > 0 /\ counting' = counting - 1
  /\ deleting' = IF Len(db) > MaxStoredResponses
                   THEN Append(deleting, Len(db) - MaxStoredResponses) ELSE deleting
  /\ UNCHANGED <<responseMap, db, ops>>

\* cleanupOldEntries: as many as were counted, whoever deleted some meanwhile.
CleanupEntries ==
  /\ deleting # <<>> /\ deleting' = Tail(deleting)
  /\ LET n == Head(deleting)
     IN  db' = SubSeq(db, n + 1, Len(db))
  /\ UNCHANGED <<responseMap, ops, counting>>

IndexedDB == RunPut \/ RunGet \/ CountEntries \/ CleanupEntries

\* responseStateAtom and the viewer: what is shown of a key. An error is shown
\* whatever the data, a response also while it is loaded again.
Shown(key) ==
  LET s == StateIn(responseMap, key)
  IN  CASE s.error -> "error"
        [] ~s.error /\ s.data # NoData -> "response"
        [] ~s.error /\ s.data = NoData /\ s.loading -> "waiting"
        [] OTHER -> "pending"
=============================================================================
