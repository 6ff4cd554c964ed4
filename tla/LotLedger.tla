----------------------------- MODULE LotLedger -----------------------------
(***************************************************************************)
(* What the auction promises about a lot, whoever bids, however the        *)
(* requests interleave and whatever fails: its book of bids is append-only *)
(* and climbs by at least the increment at every entry; it closes once,    *)
(* sold to the last bidder at the last price exactly when the reserve is   *)
(* met; and nothing changes afterwards.                                    *)
(*                                                                         *)
(* A step may enter several bids at once (a bid and the proxy bids that    *)
(* answer it) and may settle several lots at once (a batch of the closer). *)
(* The actions relate the old book to the new one; the detailed            *)
(* specifications say which bids are entered.                              *)
(***************************************************************************)
EXTENDS BidIncrement, SequencesExt

CONSTANTS
  Lots,
  Null,
  ReservePrice   \* lot -> its reserve, Null for no reserve

VARIABLES
  book,      \* lot -> its accepted bids, [bidder, amount] records
  price,     \* lot -> its current price: the opening price, then the last bid
  outcome    \* lot -> "running", "sold" or "passed"

ledgerVars == <<book, price, outcome>>

LedgerInit ==
  /\ book = [l \in Lots |-> <<>>]
  /\ price \in [Lots -> Nat]
  /\ outcome \in [Lots -> {"running", "sold", "passed"}]

(* One or more bids are entered, each at least the minimum after the one   *)
(* before it.                                                              *)
Raise(l) ==
  /\ outcome[l] = "running"
  /\ IsStrictPrefix(book[l], book'[l])
  /\ \A i \in Len(book[l]) + 1 .. Len(book'[l]) :
       book'[l][i].amount >=
         GetMinimumNextBid(IF i = 1 THEN price[l] ELSE book'[l][i - 1].amount)
  /\ price'[l] = Last(book'[l]).amount
  /\ UNCHANGED outcome[l]

ReserveMet(l) == ReservePrice[l] = Null \/ price[l] >= ReservePrice[l]

Settle(l) ==
  /\ outcome[l] = "running"
  /\ outcome'[l] = IF book[l] # <<>> /\ ReserveMet(l) THEN "sold" ELSE "passed"
  /\ UNCHANGED <<book[l], price[l]>>

Keep(l) == UNCHANGED <<book[l], price[l], outcome[l]>>

LedgerNext == \A l \in Lots : Raise(l) \/ Settle(l) \/ Keep(l)

LedgerSpec == LedgerInit /\ [][LedgerNext]_ledgerVars
=============================================================================
