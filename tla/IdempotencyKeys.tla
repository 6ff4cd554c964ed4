-------------------------- MODULE IdempotencyKeys --------------------------
(***************************************************************************)
(* The table bid_idempotency_keys and the statements that                  *)
(* src/internal/idempotency/service.ts runs on it, as PostgreSQL executes  *)
(* them in a READ COMMITTED transaction.  A key belongs to a bidder: the   *)
(* primary key is the pair.                                                *)
(*                                                                         *)
(* keyRow is committed data.  A row that a transaction has inserted and    *)
(* not committed shows as keyRow = Null under keyLock = that session; a    *)
(* committed row that a transaction holds FOR UPDATE shows as keyRow #     *)
(* Null under keyLock = that session.                                      *)
(***************************************************************************)
EXTENDS AuctionStore

VARIABLES
  keyRow,    \* key and bidder -> the committed row, or Null
  keyLock    \* key and bidder -> the session that holds its row, or Null

keyVars == <<keyRow, keyLock>>

KeyIds == Keys \X Bidders

KeyInit ==
  /\ keyRow = [k \in KeyIds |-> Null]
  /\ keyLock = [k \in KeyIds |-> Null]

(* Mutant: the INSERT does not wait for another transaction's row.         *)
KeyInsertedUnwaited(s, k) ==
  /\ keyRow[k] = Null
  /\ keyLock' = [keyLock EXCEPT ![k] = s]
  /\ UNCHANGED keyRow

(* INSERT ... ON CONFLICT DO NOTHING, when no row is there: the session    *)
(* owns the key until its transaction ends.  While another transaction's   *)
(* uncommitted row is there neither this nor KeyConflicts is true: the     *)
(* INSERT waits for that transaction.                                      *)
KeyInserted(s, k) ==
  /\ keyRow[k] = Null
  /\ keyLock[k] = Null
  /\ keyLock' = [keyLock EXCEPT ![k] = s]
  /\ UNCHANGED keyRow

(* The same INSERT, when a committed row is there: nothing is inserted. A  *)
(* row lock on that row does not delay it.                                 *)
KeyConflicts(k) == keyRow[k] # Null

(* SELECT ... FOR UPDATE SKIP LOCKED finds a completed request, and holds  *)
(* its row until the transaction ends.                                     *)
KeyCompleted(s, k) ==
  /\ keyLock[k] = Null
  /\ ~keyRow[k].locked
  /\ keyLock' = [keyLock EXCEPT ![k] = s]
  /\ UNCHANGED keyRow

(* The same SELECT, when the row is locked by a transaction and skipped,   *)
(* or carries locked = TRUE.                                               *)
KeyInFlight(k) == keyLock[k] # Null \/ keyRow[k].locked

(* releaseLock: what the key's row becomes when a bid is accepted.         *)
ReleasedRow(response) == [locked |-> FALSE, response |-> response]

(* The UPDATE that clears locked after an unexpected error, in a           *)
(* transaction of its own.  It waits for whoever holds the row, and does   *)
(* not see a row that is not committed.                                    *)
KeyForcedOpen(k) ==
  /\ keyRow[k] # Null => keyLock[k] = Null
  /\ keyRow' = IF keyRow[k] = Null THEN keyRow
               ELSE [keyRow EXCEPT ![k].locked = FALSE]
  /\ UNCHANGED keyLock

(* COMMIT and ROLLBACK free the keys that the session holds.               *)
KeysFreed(s) == [k \in KeyIds |-> IF keyLock[k] = s THEN Null ELSE keyLock[k]]
=============================================================================
