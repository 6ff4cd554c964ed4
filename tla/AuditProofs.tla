----------------------------- MODULE AuditProofs -----------------------------
(***************************************************************************)
(* Proof that auction_events tells of every bid once: the transaction      *)
(* writes an event for each bid it enters, the one of the request last,    *)
(* and nothing of it stays unless everything does.                         *)
(***************************************************************************)
EXTENDS BidEntryProofs

-----------------------------------------------------------------------------
(* What a sequence of events tells.                                        *)

PricedTypes == {"BID_ACCEPTED", "PROXY_RESOLVED"}
Priced(es) == {e \in DOMAIN es : es[e].type \in PricedTypes}
Extensions(es) == {e \in DOMAIN es : es[e].type \in {"ANTI_SNIPE_TRIGGERED"}}

(* The deadlines that a lot may have been extended to last.  Beside the    *)
(* operator's orders, which set deadlines as well, that is certain of an   *)
(* open lot only.                                                          *)
DeadlinesOf(row, alone) ==
  IF alone \/ row.status = "open" THEN {row.closingAt} ELSE Nat

(* The events tell of every bid but those in skip, of each once, and the   *)
(* last extension among them is to one of the deadlines.                   *)
TellsOf(es, bs, skip, deadlines) ==
  /\ \A i \in DOMAIN bs \ skip :
       \E e \in Priced(es) : es[e].bid = i /\ es[e].value = bs[i].amount
  /\ Cardinality(Priced(es)) + Cardinality(skip) = Len(bs)
  /\ Extensions(es) # {} =>
       \E e \in Extensions(es) :
         es[e].value \in deadlines /\ \A f \in Extensions(es) : f <= e

(* While the proxy loop runs the event of the request's own bid is still   *)
(* to come.                                                                *)
Untold(w) == IF pc[w] = "resolve" THEN {work[w].bid} ELSE {}

TablesTell(alone) ==
  \A l \in Lots : TellsOf(events[l], bids[l], {}, DeadlinesOf(lot[l], alone))

WorkTells(alone) ==
  \A w \in Workers :
    pc[w] \in {"resolve", "commit"} =>
      TellsOf(work[w].events, work[w].bids, Untold(w), DeadlinesOf(work[w].lot, alone))

AuditInv(alone) == EntryInv /\ TablesTell(alone) /\ WorkTells(alone)

(* The event numbers form a finite set.                                    *)
LEMMA PricedFinite ==
  ASSUME NEW es \in Seq(EventRow)
  PROVE  IsFiniteSet(Priced(es)) /\ Priced(es) \subseteq 1..Len(es)
<1>1. DOMAIN es = 1..Len(es) /\ Len(es) \in Nat
  BY LenProperties
<1>2. IsFiniteSet(1..Len(es))
  BY <1>1, FS_Interval
<1>. QED
  BY <1>1, <1>2, FS_Subset DEF Priced

(* One more event is the last one, and the others stay.                    *)
LEMMA OneMoreEvent ==
  ASSUME NEW es \in Seq(EventRow), NEW ev \in EventRow
  PROVE  LET n == Len(es)
             more == Append(es, ev)
         IN /\ n \in Nat /\ n + 1 \notin DOMAIN es
            /\ more[n + 1] = ev
            /\ \A e \in DOMAIN es : more[e] = es[e] /\ e <= n + 1
            /\ Priced(more) =
                 Priced(es) \cup IF ev.type \in PricedTypes THEN {n + 1} ELSE {}
            /\ Extensions(more) =
                 Extensions(es) \cup IF ev.type = "ANTI_SNIPE_TRIGGERED" THEN {n + 1} ELSE {}
<1>. DEFINE n == Len(es)
            more == Append(es, ev)
<1>1. DOMAIN es = 1..n /\ n \in Nat
  BY LenProperties
<1>2. /\ DOMAIN more = 1 .. n + 1 /\ more[n + 1] = ev
      /\ \A e \in 1..n : more[e] = es[e]
  <2>1. more \in Seq(EventRow) /\ Len(more) = n + 1
    BY AppendProperties
  <2>2. DOMAIN more = 1 .. n + 1
    BY <1>1, <2>1, LenProperties
  <2>. QED
    BY <1>1, <2>2, AppendProperties
<1>3. n + 1 \notin 1..n /\ 1 .. n + 1 = 1..n \cup {n + 1}
  BY <1>1
<1>. HIDE DEF n, more
<1>4. Priced(more) = Priced(es) \cup IF ev.type \in PricedTypes THEN {n + 1} ELSE {}
  BY <1>1, <1>2, <1>3 DEF Priced
<1>5. Extensions(more) =
        Extensions(es) \cup IF ev.type = "ANTI_SNIPE_TRIGGERED" THEN {n + 1} ELSE {}
  BY <1>1, <1>2, <1>3 DEF Extensions
<1>6. \A e \in DOMAIN es : more[e] = es[e] /\ e <= n + 1
  BY <1>1, <1>2
<1>. QED
  BY <1>1, <1>2, <1>3, <1>4, <1>5, <1>6 DEF n, more

(* A new bid that nothing tells of yet.                                    *)
LEMMA UntoldBid ==
  ASSUME NEW es \in Seq(EventRow), NEW bs \in Seq(BidRow), NEW nbs \in Seq(BidRow),
         NEW skip, NEW deadlines, TellsOf(es, bs, skip, deadlines),
         IsFiniteSet(skip), skip \subseteq DOMAIN bs,
         Len(nbs) = Len(bs) + 1,
         \A i \in 1..Len(bs) : nbs[i].amount = bs[i].amount
  PROVE  TellsOf(es, nbs, skip \cup {Len(bs) + 1}, deadlines)
<1>1. /\ DOMAIN bs = 1..Len(bs) /\ Len(bs) \in Nat
      /\ DOMAIN nbs = 1 .. Len(bs) + 1
  BY LenProperties
<1>2. Len(bs) + 1 \notin skip
  BY <1>1
<1>3. Cardinality(skip \cup {Len(bs) + 1}) = Cardinality(skip) + 1
  BY <1>2, FS_AddElement
<1>4. Cardinality(skip) \in Nat /\ Cardinality(Priced(es)) \in Nat
  BY PricedFinite, FS_CardinalityType
<1>5. \A i \in DOMAIN nbs \ (skip \cup {Len(bs) + 1}) :
        i \in DOMAIN bs \ skip /\ nbs[i].amount = bs[i].amount
  BY <1>1
<1>6. Cardinality(Priced(es)) + Cardinality(skip) = Len(bs)
  BY DEF TellsOf
<1>7. /\ \A i \in DOMAIN nbs \ (skip \cup {Len(bs) + 1}) :
           \E e \in Priced(es) : es[e].bid = i /\ es[e].value = nbs[i].amount
  BY <1>5 DEF TellsOf
<1>. QED
  BY <1>1, <1>3, <1>4, <1>6, <1>7 DEF TellsOf

(* The event about a bid that nothing told of.                             *)
LEMMA ToldBid ==
  ASSUME NEW es \in Seq(EventRow), NEW bs \in Seq(BidRow), NEW k \in DOMAIN bs,
         NEW skip, NEW deadlines, TellsOf(es, bs, skip, deadlines),
         IsFiniteSet(skip), k \in skip,
         NEW ev \in EventRow, ev.type \in PricedTypes,
         ev.bid = k, ev.value = bs[k].amount
  PROVE  TellsOf(Append(es, ev), bs, skip \ {k}, deadlines)
<1>. DEFINE n == Len(es)
            more == Append(es, ev)
<1>1. ev.type # "ANTI_SNIPE_TRIGGERED"
  BY DEF PricedTypes
<1>2. /\ n \in Nat /\ n + 1 \notin DOMAIN es /\ more[n + 1] = ev
      /\ \A e \in DOMAIN es : more[e] = es[e] /\ e <= n + 1
      /\ Priced(more) = Priced(es) \cup {n + 1}
      /\ Extensions(more) = Extensions(es)
  <2>1. /\ n \in Nat /\ n + 1 \notin DOMAIN es
        /\ more[n + 1] = ev
        /\ \A e \in DOMAIN es : more[e] = es[e] /\ e <= n + 1
        /\ Priced(more) =
             Priced(es) \cup IF ev.type \in PricedTypes THEN {n + 1} ELSE {}
        /\ Extensions(more) =
             Extensions(es) \cup IF ev.type = "ANTI_SNIPE_TRIGGERED" THEN {n + 1} ELSE {}
    BY OneMoreEvent
  <2>. HIDE DEF n, more
  <2>. QED
    BY <1>1, <2>1
<1>. HIDE DEF n, more
<1>3. /\ Cardinality(Priced(es) \cup {n + 1}) = Cardinality(Priced(es)) + 1
      /\ Cardinality(Priced(es)) \in Nat
  <2>1. n + 1 \notin Priced(es)
    BY <1>2 DEF Priced
  <2>2. IsFiniteSet(Priced(es))
    BY PricedFinite
  <2>. QED
    BY <2>1, <2>2, FS_AddElement, FS_CardinalityType
<1>4. Cardinality(skip \ {k}) = Cardinality(skip) - 1 /\ Cardinality(skip) \in Nat
  BY FS_RemoveElement, FS_CardinalityType
<1>5. Cardinality(Priced(es)) + Cardinality(skip) = Len(bs)
  BY DEF TellsOf
<1>6. Cardinality(Priced(more)) + Cardinality(skip \ {k}) = Len(bs)
  BY <1>2, <1>3, <1>4, <1>5
<1>7. ASSUME NEW i \in DOMAIN bs \ (skip \ {k})
      PROVE  \E e \in Priced(more) : more[e].bid = i /\ more[e].value = bs[i].amount
  <2>1. CASE i = k
    BY <1>2, <2>1
  <2>2. CASE i # k
    <3>1. PICK e \in Priced(es) : es[e].bid = i /\ es[e].value = bs[i].amount
      BY <2>2 DEF TellsOf
    <3>2. e \in DOMAIN es
      BY DEF Priced
    <3>. QED
      BY <1>2, <3>1, <3>2
  <2>. QED
    BY <2>1, <2>2
<1>8. ASSUME Extensions(more) # {}
      PROVE  \E e \in Extensions(more) :
               more[e].value \in deadlines /\ \A f \in Extensions(more) : f <= e
  <2>1. PICK e \in Extensions(es) :
               es[e].value \in deadlines /\ \A f \in Extensions(es) : f <= e
    BY <1>2, <1>8 DEF TellsOf
  <2>2. e \in DOMAIN es
    BY DEF Extensions
  <2>. QED
    BY <1>2, <2>1, <2>2
<1>9. TellsOf(more, bs, skip \ {k}, deadlines)
  BY <1>6, <1>7, <1>8 DEF TellsOf
<1>. QED
  BY <1>9 DEF more

(* The event about an extension.                                           *)
LEMMA ToldExtension ==
  ASSUME NEW es \in Seq(EventRow), NEW bs, NEW skip, NEW old,
         TellsOf(es, bs, skip, old),
         NEW ev \in EventRow, ev.type = "ANTI_SNIPE_TRIGGERED"
  PROVE  TellsOf(Append(es, ev), bs, skip, {ev.value})
<1>. DEFINE n == Len(es)
            more == Append(es, ev)
<1>1. ev.type \notin PricedTypes
  BY DEF PricedTypes
<1>2. /\ n \in Nat /\ n + 1 \notin DOMAIN es /\ more[n + 1] = ev
      /\ \A e \in DOMAIN es : more[e] = es[e] /\ e <= n + 1
      /\ Priced(more) = Priced(es)
      /\ Extensions(more) = Extensions(es) \cup {n + 1}
  <2>1. /\ n \in Nat /\ n + 1 \notin DOMAIN es
        /\ more[n + 1] = ev
        /\ \A e \in DOMAIN es : more[e] = es[e] /\ e <= n + 1
        /\ Priced(more) =
             Priced(es) \cup IF ev.type \in PricedTypes THEN {n + 1} ELSE {}
        /\ Extensions(more) =
             Extensions(es) \cup IF ev.type = "ANTI_SNIPE_TRIGGERED" THEN {n + 1} ELSE {}
    BY OneMoreEvent
  <2>. HIDE DEF n, more
  <2>. QED
    BY <1>1, <2>1
<1>. HIDE DEF n, more
<1>3. ASSUME NEW i \in DOMAIN bs \ skip
      PROVE  \E e \in Priced(more) : more[e].bid = i /\ more[e].value = bs[i].amount
  <2>1. PICK e \in Priced(es) : es[e].bid = i /\ es[e].value = bs[i].amount
    BY DEF TellsOf
  <2>2. e \in DOMAIN es
    BY DEF Priced
  <2>. QED
    BY <1>2, <2>1, <2>2
<1>4. \A f \in Extensions(more) : f <= n + 1
  <2>1. \A f \in Extensions(es) : f <= n + 1
    <3>1. \A f \in Extensions(es) : f \in DOMAIN es
      BY DEF Extensions
    <3>. QED
      BY <1>2, <3>1
  <2>. QED
    BY <1>2, <2>1
<1>5. \E e \in Extensions(more) :
        more[e].value \in {ev.value} /\ \A f \in Extensions(more) : f <= e
  BY <1>2, <1>4
<1>6. TellsOf(more, bs, skip, {ev.value})
  BY <1>2, <1>3, <1>5 DEF TellsOf
<1>. QED
  BY <1>6 DEF more

(* The anti-snipe check keeps the events in step with the deadline.        *)
LEMMA ExtensionTells ==
  ASSUME NEW wk \in Work, NEW i \in Nat, NEW skip, NEW alone,
         TellsOf(wk.events, wk.bids, skip, DeadlinesOf(wk.lot, alone))
  PROVE  LET new == Extended(wk, i) IN
         TellsOf(new.events, new.bids, skip, DeadlinesOf(new.lot, alone))
<1>. DEFINE closing == wk.lot.closingAt
            deadline == closing + AntiSnipeExtension
            ev == EventOf("ANTI_SNIPE_TRIGGERED", i, deadline)
            trail == Append(wk.events, ev)
            row == [[wk.lot EXCEPT !.closingAt = deadline] EXCEPT !.status = "open"]
            short == closing # Null /\ closing - now < AntiSnipeWindow /\ closing > now
            new == Extended(wk, i)
<1>1. CASE ~short
  BY <1>1 DEF Extended
<1>2. CASE short
  <2>1. wk.lot \in LotRow /\ wk.events \in Seq(EventRow) /\ closing \in Nat
    BY <1>2 DEF Work, LotRow, Time
  <2>2. deadline \in Nat
    BY <2>1, StoreAssumption
  <2>3. ev \in EventRow /\ ev.type = "ANTI_SNIPE_TRIGGERED" /\ ev.value = deadline
    BY <2>2 DEF EventOf, EventRow
  <2>. HIDE DEF ev
  <2>4. TellsOf(trail, wk.bids, skip, {deadline})
    <3>1. TellsOf(trail, wk.bids, skip, {ev.value})
      BY <2>1, <2>3, ToldExtension
    <3>. QED
      BY <2>3, <3>1
  <2>5. DeadlinesOf(row, alone) = {deadline}
    BY <2>1 DEF DeadlinesOf, LotRow
  <2>. HIDE DEF deadline, closing, trail
  <2>6. new = [wk EXCEPT !.lot = row, !.events = trail, !.extended = TRUE]
    BY <1>2, Zenon DEF Extended, trail, ev, deadline, closing
  <2>. HIDE DEF row, new
  <2>7. new.lot = row /\ new.events = trail /\ new.bids = wk.bids
    BY <2>6 DEF Work
  <2>8. TellsOf(new.events, new.bids, skip, DeadlinesOf(new.lot, alone))
    BY <2>4, <2>5, <2>7
  <2>. QED
    BY <2>8 DEF new
<1>. QED
  BY <1>1, <1>2

-----------------------------------------------------------------------------
(* Steps of a transaction.                                                 *)

(* The UPDATE for a new leading bid leaves the deadline alone.             *)
LEMMA LedDeadline ==
  ASSUME NEW row \in LotRow, NEW bidder \in Bidders, NEW amount \in Nat, NEW alone
  PROVE  DeadlinesOf(Led(row, bidder, amount), alone) = DeadlinesOf(row, alone)
<1>. DEFINE r1 == [row EXCEPT !.currentBid = amount]
            r2 == [r1 EXCEPT !.winner = bidder]
            r3 == [r2 EXCEPT !.bidCount = @ + 1]
<1>1. r1 \in LotRow /\ r1.closingAt = row.closingAt /\ r1.status = row.status
  BY DEF LotRow
<1>2. r2 \in LotRow /\ r2.closingAt = row.closingAt /\ r2.status = row.status
  <2>. HIDE DEF r1
  <2>. QED  BY <1>1 DEF LotRow
<1>3. Led(row, bidder, amount) = r3
  BY DEF Led, LotRow
<1>. HIDE DEF r2
<1>4. r3.closingAt = row.closingAt /\ r3.status = row.status
  BY <1>2 DEF LotRow
<1>. QED
  BY <1>3, <1>4 DEF DeadlinesOf

(* The bid of a request is the one bid the events do not tell of.          *)
LEMMA AcceptTells ==
  ASSUME NEW wk \in Work, NEW r \in Requests, NEW placed \in Time, NEW alone,
         RowAgreesWithBids(wk.lot, wk.bids), Rejection(r, wk.lot) = "none",
         TellsOf(wk.events, wk.bids, {}, DeadlinesOf(wk.lot, alone))
  PROVE  LET new == WithBid(wk, r, placed) IN
         TellsOf(new.events, new.bids, {new.bid}, DeadlinesOf(new.lot, alone))
<1>. DEFINE new == WithBid(wk, r, placed)
            row == Led(wk.lot, r.bidder, r.amount)
            newBids == new.bids
            met == ReservePrice[r.lot] # Null /\ r.amount >= ReservePrice[r.lot]
            pos == Len(wk.bids) + 1
            inserted == Append(wk.bids, BidOf(r, placed))
            entered == IF wk.lot.winner \in {Null, r.bidder} THEN inserted
                       ELSE Outbid(inserted, wk.lot.winner)
<1>1. /\ wk.lot \in LotRow /\ wk.bids \in Seq(BidRow) /\ wk.events \in Seq(EventRow)
  BY DEF Work
<1>2. new = [wk EXCEPT !.lot = row, !.bids = entered, !.bid = pos, !.reserveMet = met]
  BY Zenon DEF WithBid, BidOf
<1>3. /\ new \in Work /\ new.lot = row /\ new.bid = pos /\ Len(new.bids) = pos
  BY WithBidProperties
<1>4. DeadlinesOf(row, alone) = DeadlinesOf(wk.lot, alone)
  BY <1>1, RequestType, LedDeadline
<1>5. Continues(new, r, wk.lot, wk.bids)
  BY AcceptContinues
<1>. HIDE DEF new, row, entered, met
<1>6. new.events = wk.events
  BY <1>2 DEF Work
<1>7. \A i \in 1..Len(wk.bids) : new.bids[i].amount = wk.bids[i].amount
  BY <1>5 DEF Continues, SameEntry
<1>8. new.bids \in Seq(BidRow)
  BY <1>3 DEF Work
<1>9. IsFiniteSet({}) /\ {} \subseteq DOMAIN wk.bids
  BY FS_EmptySet
<1>10. TellsOf(wk.events, new.bids, {} \cup {pos}, DeadlinesOf(wk.lot, alone))
  BY <1>1, <1>3, <1>7, <1>8, <1>9, UntoldBid
<1>11. {} \cup {pos} = {new.bid}
  BY <1>3
<1>12. TellsOf(new.events, new.bids, {new.bid}, DeadlinesOf(new.lot, alone))
  BY <1>3, <1>4, <1>6, <1>10, <1>11
<1>. QED
  BY <1>12 DEF new

(* A bid for a proxy bid is not told of at first.                          *)
LEMMA CounterTells ==
  ASSUME NEW wk \in Work, NEW p \in DOMAIN wk.bids, NEW placed \in Time,
         NEW alone, wk.bid \in DOMAIN wk.bids,
         TellsOf(wk.events, wk.bids, {wk.bid}, DeadlinesOf(wk.lot, alone))
  PROVE  LET new == WithCounter(wk, p, placed) IN
         TellsOf(new.events, new.bids, {wk.bid, Len(wk.bids) + 1}, DeadlinesOf(new.lot, alone))
<1>. DEFINE new == WithCounter(wk, p, placed)
            amount == GetMinimumNextBid(wk.lot.currentBid)
            row == Led(wk.lot, wk.bids[p].bidder, amount)
            outbid == Outbid(wk.bids, wk.lot.winner)
            entered == Append(outbid, CounterOf(wk, p, placed))
            round == wk.iterations + 1
<1>1. /\ wk.lot \in LotRow /\ wk.bids \in Seq(BidRow) /\ wk.events \in Seq(EventRow)
      /\ wk.lot.currentBid \in Nat
  BY DEF Work, LotRow
<1>2. new = [wk EXCEPT !.lot = row, !.bids = entered, !.iterations = round]
  BY Zenon DEF WithCounter, CounterOf
<1>3. /\ new \in Work /\ new.lot = row /\ new.bids = entered
      /\ Len(new.bids) = Len(wk.bids) + 1
  BY WithCounterProperties
<1>4. DeadlinesOf(row, alone) = DeadlinesOf(wk.lot, alone)
  <2>1. p \in 1..Len(wk.bids)
    BY <1>1, LenProperties
  <2>2. wk.bids[p] \in BidRow
    BY <1>1, <2>1, ElementOfSeq
  <2>3. wk.bids[p].bidder \in Bidders /\ amount \in Nat
    BY <1>1, <2>2, MinimumNextBidHigher DEF BidRow
  <2>. QED
    BY <1>1, <2>3, LedDeadline
<1>5. /\ outbid \in Seq(BidRow) /\ Len(outbid) = Len(wk.bids)
      /\ \A i \in 1..Len(wk.bids) : SameEntry(outbid[i], wk.bids[i])
  BY <1>1, OutbidProperties, OutbidKeepsEntries
<1>6. CounterOf(wk, p, placed) \in BidRow
  BY CounterOfType
<1>. HIDE DEF new, row, outbid, round
<1>7. \A i \in 1..Len(wk.bids) : entered[i] = outbid[i]
  BY <1>5, <1>6, AppendProperties
<1>. HIDE DEF entered
<1>8. new.events = wk.events
  BY <1>2 DEF Work
<1>9. \A i \in 1..Len(wk.bids) : new.bids[i].amount = wk.bids[i].amount
  BY <1>3, <1>5, <1>7 DEF SameEntry
<1>10. new.bids \in Seq(BidRow)
  BY <1>3 DEF Work
<1>11. IsFiniteSet({wk.bid}) /\ {wk.bid} \subseteq DOMAIN wk.bids
  BY FS_Singleton
<1>12. TellsOf(wk.events, new.bids, {wk.bid} \cup {Len(wk.bids) + 1}, DeadlinesOf(wk.lot, alone))
  BY <1>1, <1>3, <1>9, <1>10, <1>11, UntoldBid
<1>13. {wk.bid} \cup {Len(wk.bids) + 1} = {wk.bid, Len(wk.bids) + 1}
  OBVIOUS
<1>14. TellsOf(new.events, new.bids, {wk.bid, Len(wk.bids) + 1}, DeadlinesOf(new.lot, alone))
  BY <1>3, <1>4, <1>8, <1>12, <1>13
<1>. QED
  BY <1>14 DEF new

-----------------------------------------------------------------------------
(* Steps of the workers.                                                   *)

(* A worker that leaves the tables alone matters to nobody else.           *)
LEMMA OthersTell ==
  ASSUME NEW CONSTANT alone, AuditInv(alone), NEW w \in Workers, UNCHANGED <<lot, bids, events>>,
         \A v \in Workers \ {w} : pc'[v] = pc[v] /\ work'[v] = work[v],
         pc'[w] \in {"resolve", "commit"} =>
           TellsOf(work'[w].events, work'[w].bids,
                   IF pc'[w] = "resolve" THEN {work'[w].bid} ELSE {},
                   DeadlinesOf(work'[w].lot, alone))
  PROVE  TablesTell(alone)' /\ WorkTells(alone)'
<1>1. TablesTell(alone)'
  BY ZenonT(60) DEF AuditInv, TablesTell, TellsOf, Priced, Extensions, DeadlinesOf
<1>2. ASSUME NEW v \in Workers, pc'[v] \in {"resolve", "commit"}
      PROVE  TellsOf(work'[v].events, work'[v].bids,
                     IF pc'[v] = "resolve" THEN {work'[v].bid} ELSE {},
                     DeadlinesOf(work'[v].lot, alone))
  <2>1. CASE v = w
    BY <1>2, <2>1
  <2>2. CASE v # w
    <3>1. pc'[v] = pc[v] /\ work'[v] = work[v]
      BY <2>2
    <3>2. TellsOf(work[v].events, work[v].bids, Untold(v), DeadlinesOf(work[v].lot, alone))
      BY <1>2, <3>1 DEF AuditInv, WorkTells
    <3>. QED
      BY <3>1, <3>2 DEF Untold
  <2>. QED
    BY <2>1, <2>2
<1>3. WorkTells(alone)'
  BY <1>2 DEF WorkTells, Untold, TellsOf, Priced, Extensions, DeadlinesOf
<1>. QED
  BY <1>1, <1>3

(* Every step of a worker keeps the events complete, in the tables and in  *)
(* the transactions.                                                       *)
LEMMA WorkerStepTells ==
  ASSUME NEW CONSTANT alone, AuditInv(alone), NEW w \in Workers, Begin(w) \/ WorkerStep(w) \/ WorkerFailure(w)
  PROVE  TablesTell(alone)' /\ WorkTells(alone)'
<1>. USE DEF Goes
<1>0. /\ pc \in [Workers -> InTransaction \cup {"idle", "publish", "unlock"}]
      /\ DOMAIN work = Workers
      /\ TypeInv /\ EntryInv /\ now \in Nat
  BY DEF AuditInv, EntryInv, BookInv, TypeInv, BidTypeOK, StoreTypeOK, Time
<1>1. CASE AcceptBid(w)
  <2>. DEFINE with == WithBid(work[w], req[w], startedAt[w])
              new == Extended(with, with.bid)
  <2>1. /\ work[w] \in Work /\ req[w] \in Requests /\ startedAt[w] \in Time
        /\ req[w].lot \in Lots
    BY <1>0, <1>1 DEF AcceptBid, TypeInv, WorkersAreEquipped, BidTypeOK
  <2>2. /\ work[w].lot = lot[req[w].lot] /\ work[w].bids = bids[req[w].lot]
        /\ work[w].events = events[req[w].lot]
    <3>1. WorkIsProtected(w) /\ pc[w] = "validate"
      BY <1>0, <1>1 DEF AcceptBid, EntryInv, BookInv, LocksProtectTheWork
    <3>2. work[w] = WorkOn(req[w].lot)
      BY <3>1 DEF WorkIsProtected
    <3>. QED
      BY <3>2 DEF WorkOn
  <2>3. RowAgreesWithBids(work[w].lot, work[w].bids)
    BY <1>0, <2>1, <2>2 DEF EntryInv, BookInv, LotAgreesWithBids
  <2>4. TellsOf(work[w].events, work[w].bids, {}, DeadlinesOf(work[w].lot, alone))
    BY <2>1, <2>2 DEF AuditInv, TablesTell
  <2>5. Rejection(req[w], work[w].lot) = "none"
    BY <1>1 DEF AcceptBid
  <2>6. TellsOf(with.events, with.bids, {with.bid}, DeadlinesOf(with.lot, alone))
    BY <2>1, <2>3, <2>4, <2>5, AcceptTells
  <2>7. with \in Work /\ with.bid \in Nat
    BY <2>1, WithBidProperties DEF Work
  <2>. HIDE DEF with
  <2>8. TellsOf(new.events, new.bids, {with.bid}, DeadlinesOf(new.lot, alone))
    BY <2>6, <2>7, ExtensionTells
  <2>9. new.bid = with.bid
    BY <1>0, <2>7, ExtendedType
  <2>10. work' = [work EXCEPT ![w] = new]
    BY <1>1 DEF AcceptBid, with
  <2>. HIDE DEF new
  <2>11. /\ UNCHANGED <<lot, bids, events>> /\ pc'[w] = "resolve"
         /\ \A v \in Workers \ {w} : pc'[v] = pc[v] /\ work'[v] = work[v]
         /\ work'[w] = new
    BY <1>0, <1>1, <2>10 DEF AcceptBid, storeVars
  <2>. QED
    BY <2>8, <2>9, <2>11, OthersTell
<1>2. CASE ProxyCounters(w)
  <2>1. PICK p \in Counters(work[w]) :
               work' = [work EXCEPT ![w] =
                 LET i == Len(work[w].bids) + 1
                     wk == Extended(WithCounter(work[w], p, startedAt[w]), i)
                     event == EventOf("PROXY_RESOLVED", i, wk.lot.currentBid)
                 IN [wk EXCEPT !.events = Append(@, event)]]
    BY <1>2 DEF ProxyCounters
  <2>. DEFINE i == Len(work[w].bids) + 1
              with == WithCounter(work[w], p, startedAt[w])
              wk == Extended(with, i)
              ev == EventOf("PROXY_RESOLVED", i, wk.lot.currentBid)
              events1 == Append(wk.events, ev)
              new == [wk EXCEPT !.events = events1]
  <2>2. /\ work[w] \in Work /\ startedAt[w] \in Time /\ req[w] \in Requests
        /\ work[w].bids \in Seq(BidRow) /\ Len(work[w].bids) \in Nat
        /\ DOMAIN work[w].bids = 1..Len(work[w].bids)
    BY <1>0, <1>2, LenProperties
    DEF ProxyCounters, TypeInv, WorkersAreEquipped, BidTypeOK, StoreTypeOK, Work
  <2>3. p \in DOMAIN work[w].bids /\ i \in Nat
    BY <2>2 DEF Counters, BestProxies, Competing
  <2>4. /\ RowAgreesWithBids(work[w].lot, work[w].bids)
        /\ work[w].bid \in 1..Len(work[w].bids)
    <3>1. /\ RowAgreesWithBids(work[w].lot, work[w].bids)
          /\ Continues(work[w], req[w], lot[req[w].lot], bids[req[w].lot])
          /\ req[w].lot \in Lots
      BY <1>0, <1>2, CommitterHolds DEF ProxyCounters
    <3>2. Len(bids[req[w].lot]) \in Nat
      BY <1>0, <3>1, LenProperties DEF TypeInv, BidTypeOK, StoreTypeOK
    <3>. QED
      BY <2>2, <3>1, <3>2 DEF Continues
  <2>5. TellsOf(work[w].events, work[w].bids, {work[w].bid}, DeadlinesOf(work[w].lot, alone))
    BY <1>2 DEF AuditInv, WorkTells, Untold, ProxyCounters
  <2>6. /\ with \in Work /\ Len(with.bids) = i /\ with.bid = work[w].bid
        /\ RowAgreesWithBids(with.lot, with.bids)
    BY <2>2, <2>3, <2>4, WithCounterProperties, CounterBidAgrees
  <2>7. TellsOf(with.events, with.bids, {work[w].bid, i}, DeadlinesOf(with.lot, alone))
    BY <2>2, <2>3, <2>4, <2>5, CounterTells
  <2>. HIDE DEF with
  <2>8. work[w].bid # i
    BY <2>2, <2>4
  <2>. HIDE DEF i
  <2>9. /\ wk \in Work /\ wk.bids = with.bids /\ wk.bid = work[w].bid
        /\ wk.lot.currentBid = with.lot.currentBid
    BY <1>0, <2>3, <2>6, ExtendedType
  <2>10. TellsOf(wk.events, wk.bids, {work[w].bid, i}, DeadlinesOf(wk.lot, alone))
    BY <2>3, <2>6, <2>7, ExtensionTells
  <2>11. work' = [work EXCEPT ![w] = new]
    BY <2>1, Zenon DEF with, i
  <2>. HIDE DEF wk
  <2>12. i \in DOMAIN wk.bids /\ wk.bids[i].amount = wk.lot.currentBid
    <3>1. wk.bids \in Seq(BidRow) /\ Len(wk.bids) = i /\ i >= 1
      BY <2>2, <2>6, <2>9 DEF Work, i
    <3>2. DOMAIN wk.bids = 1..i /\ wk.bids # <<>>
      BY <2>3, <3>1, LenProperties, EmptySeq
    <3>3. wk.bids[i].amount = with.lot.currentBid
      BY <2>6, <2>9, <3>1, <3>2 DEF RowAgreesWithBids
    <3>. QED
      BY <2>3, <2>9, <3>1, <3>2, <3>3
  <2>13. wk.events \in Seq(EventRow) /\ wk.bids \in Seq(BidRow) /\ wk.lot.currentBid \in Nat
    BY <2>9 DEF Work, LotRow
  <2>14. /\ ev \in EventRow /\ ev.type \in PricedTypes
         /\ ev.bid = i /\ ev.value = wk.lot.currentBid
    BY <2>3, <2>13 DEF EventOf, EventRow, PricedTypes
  <2>. HIDE DEF ev
  <2>15. TellsOf(events1, wk.bids, {work[w].bid, i} \ {i}, DeadlinesOf(wk.lot, alone))
    <3>1. IsFiniteSet({work[w].bid, i})
      <4>1. {work[w].bid, i} = {work[w].bid} \cup {i}
        OBVIOUS
      <4>2. IsFiniteSet({work[w].bid})
        BY FS_Singleton
      <4>3. IsFiniteSet({work[w].bid} \cup {i})
        BY <4>2, FS_AddElement
      <4>. QED
        BY <4>1, <4>3
    <3>2. i \in {work[w].bid, i} /\ ev.value = wk.bids[i].amount
      BY <2>12, <2>14
    <3>. QED
      BY <2>10, <2>12, <2>13, <2>14, <3>1, <3>2, ToldBid
  <2>16. {work[w].bid, i} \ {i} = {wk.bid}
    BY <2>8, <2>9
  <2>. HIDE DEF events1
  <2>17. /\ new.bids = wk.bids /\ new.lot = wk.lot /\ new.bid = wk.bid
         /\ new.events = events1
    BY <2>9 DEF Work
  <2>. HIDE DEF new
  <2>18. /\ UNCHANGED <<lot, bids, events>> /\ pc'[w] = "resolve"
         /\ \A v \in Workers \ {w} : pc'[v] = pc[v] /\ work'[v] = work[v]
         /\ work'[w] = new
    BY <1>0, <1>2, <2>11 DEF ProxyCounters, storeVars
  <2>19. TellsOf(new.events, new.bids, {new.bid}, DeadlinesOf(new.lot, alone))
    BY <2>15, <2>16, <2>17
  <2>. QED
    BY <2>18, <2>19, OthersTell
<1>3. CASE RecordBid(w)
  <2>. DEFINE ev == EventOf("BID_ACCEPTED", work[w].bid, req[w].amount)
              events1 == Append(work[w].events, ev)
              new == [work[w] EXCEPT !.events = events1]
  <2>1. /\ work[w] \in Work /\ req[w] \in Requests /\ req[w].lot \in Lots
        /\ Continues(work[w], req[w], lot[req[w].lot], bids[req[w].lot])
    BY <1>0, <1>3, CommitterHolds DEF RecordBid
  <2>2. /\ work[w].bids \in Seq(BidRow) /\ work[w].events \in Seq(EventRow)
        /\ work[w].bid \in Nat /\ req[w].amount \in Nat
    BY <2>1, RequestType DEF Work
  <2>3. work[w].bid \in DOMAIN work[w].bids
    <3>1. /\ Len(bids[req[w].lot]) \in Nat /\ Len(work[w].bids) \in Nat
          /\ DOMAIN work[w].bids = 1..Len(work[w].bids)
      BY <1>0, <2>1, <2>2, LenProperties DEF TypeInv, BidTypeOK, StoreTypeOK
    <3>. QED
      BY <2>1, <3>1 DEF Continues
  <2>4. work[w].bids[work[w].bid].amount = req[w].amount
    BY <2>1 DEF Continues
  <2>5. /\ ev \in EventRow /\ ev.type \in PricedTypes
        /\ ev.bid = work[w].bid /\ ev.value = req[w].amount
    BY <2>2 DEF EventOf, EventRow, PricedTypes
  <2>6. TellsOf(work[w].events, work[w].bids, {work[w].bid}, DeadlinesOf(work[w].lot, alone))
    BY <1>3 DEF AuditInv, WorkTells, Untold, RecordBid
  <2>7. work' = [work EXCEPT ![w] = new]
    BY <1>3, Zenon DEF RecordBid
  <2>. HIDE DEF ev
  <2>8. TellsOf(events1, work[w].bids, {work[w].bid} \ {work[w].bid},
                DeadlinesOf(work[w].lot, alone))
    <3>1. IsFiniteSet({work[w].bid}) /\ work[w].bid \in {work[w].bid}
      BY FS_Singleton
    <3>. QED
      BY <2>2, <2>3, <2>4, <2>5, <2>6, <3>1, ToldBid
  <2>9. {work[w].bid} \ {work[w].bid} = {}
    OBVIOUS
  <2>. HIDE DEF events1
  <2>10. new.bids = work[w].bids /\ new.lot = work[w].lot /\ new.events = events1
    BY <2>1 DEF Work
  <2>. HIDE DEF new
  <2>11. /\ UNCHANGED <<lot, bids, events>> /\ pc'[w] = "commit"
         /\ \A v \in Workers \ {w} : pc'[v] = pc[v] /\ work'[v] = work[v]
         /\ work'[w] = new
    BY <1>0, <1>3, <2>7 DEF RecordBid, storeVars
  <2>12. TellsOf(new.events, new.bids, {}, DeadlinesOf(new.lot, alone))
    BY <2>8, <2>9, <2>10
  <2>. QED
    BY <2>11, <2>12, OthersTell
<1>4. CASE Commit(w) \/ CommitUnacknowledged(w)
  <2>1. /\ pc[w] = "commit" /\ Committed(w) /\ pc'[w] \in {"publish", "unlock"}
        /\ \A v \in Workers \ {w} : pc'[v] = pc[v] /\ work'[v] = work[v]
    BY <1>0, <1>4 DEF Commit, CommitUnacknowledged
  <2>2. TellsOf(work[w].events, work[w].bids, {}, DeadlinesOf(work[w].lot, alone))
    BY <2>1 DEF AuditInv, WorkTells, Untold
  <2>3. ASSUME NEW l \in Lots
        PROVE  TellsOf(events'[l], bids'[l], {}, DeadlinesOf(lot'[l], alone))
    <3>1. CASE l = req[w].lot
      BY <1>0, <2>1, <2>2, <3>1, CommittedTables
    <3>2. CASE l # req[w].lot
      BY <1>0, <2>1, <3>2, CommittedTables DEF AuditInv, TablesTell
    <3>. QED
      BY <3>1, <3>2
  <2>4. TablesTell(alone)'
    BY <2>3 DEF TablesTell, TellsOf, Priced, Extensions, DeadlinesOf
  <2>5. ASSUME NEW v \in Workers, pc'[v] \in {"resolve", "commit"}
        PROVE  TellsOf(work'[v].events, work'[v].bids,
                       IF pc'[v] = "resolve" THEN {work'[v].bid} ELSE {},
                       DeadlinesOf(work'[v].lot, alone))
    <3>1. pc'[v] = pc[v] /\ work'[v] = work[v]
      BY <2>1, <2>5
    <3>2. TellsOf(work[v].events, work[v].bids, Untold(v), DeadlinesOf(work[v].lot, alone))
      BY <2>5, <3>1 DEF AuditInv, WorkTells
    <3>. QED
      BY <3>1, <3>2 DEF Untold
  <2>6. WorkTells(alone)'
    BY <2>5 DEF WorkTells, Untold, TellsOf, Priced, Extensions, DeadlinesOf
  <2>. QED
    BY <2>4, <2>6
<1>5. CASE \/ Begin(w) \/ InsertKey(w) \/ InsertFindsKey(w) \/ SelectCompleted(w)
           \/ SelectInFlight(w) \/ Replay(w) \/ LockLot(w) \/ LotNotFound(w)
           \/ RejectBid(w) \/ Publish(w) \/ ForceUnlock(w) \/ StatementFails(w)
  <2>1. UNCHANGED <<lot, bids, events>>
    BY <1>5
    DEF Begin, InsertKey, InsertFindsKey, SelectCompleted, SelectInFlight, Replay,
        LockLot, LotNotFound, RejectBid, Publish, ForceUnlock, StatementFails,
        RolledBack, storeVars
  <2>2. /\ pc'[w] \notin {"resolve", "commit"}
        /\ \A v \in Workers \ {w} : pc'[v] = pc[v] /\ work'[v] = work[v]
    BY <1>0, <1>5
    DEF Begin, InsertKey, InsertFindsKey, SelectCompleted, SelectInFlight, Replay,
        LockLot, LotNotFound, RejectBid, Publish, ForceUnlock, StatementFails,
        RolledBack
  <2>. QED
    BY <2>1, <2>2, OthersTell
<1>. QED
  BY <1>1, <1>2, <1>3, <1>4, <1>5 DEF WorkerStep, WorkerFailure

(* A step that leaves tables and transactions alone.                       *)
LEMMA TrailUntouched ==
  ASSUME NEW CONSTANT alone, AuditInv(alone), UNCHANGED <<lot, bids, events, pc, work>>
  PROVE  TablesTell(alone)' /\ WorkTells(alone)'
<1>1. TablesTell(alone)'
  BY ZenonT(60) DEF AuditInv, TablesTell, TellsOf, Priced, Extensions, DeadlinesOf
<1>2. ASSUME NEW v \in Workers, pc'[v] \in {"resolve", "commit"}
      PROVE  TellsOf(work'[v].events, work'[v].bids,
                     IF pc'[v] = "resolve" THEN {work'[v].bid} ELSE {},
                     DeadlinesOf(work'[v].lot, alone))
  BY <1>2 DEF AuditInv, WorkTells, Untold
<1>3. WorkTells(alone)'
  BY <1>2 DEF WorkTells, Untold, TellsOf, Priced, Extensions, DeadlinesOf
<1>. QED
  BY <1>1, <1>3

(* Nothing is told at first.                                               *)
LEMMA AuditInit ==
  ASSUME NEW CONSTANT alone
  PROVE  BidInit => TablesTell(alone) /\ WorkTells(alone)
<1>. SUFFICES ASSUME BidInit PROVE TablesTell(alone) /\ WorkTells(alone)
  OBVIOUS
<1>1. \A l \in Lots : events[l] = <<>> /\ bids[l] = <<>>
  BY DEF BidInit, StoreInit
<1>2. Priced(<<>>) = {} /\ Extensions(<<>>) = {}
  BY DEF Priced, Extensions
<1>3. ASSUME NEW deadlines PROVE TellsOf(<<>>, <<>>, {}, deadlines)
  BY <1>2, FS_EmptySet DEF TellsOf
<1>4. TablesTell(alone)
  BY <1>1, <1>3 DEF TablesTell
<1>. QED
  BY <1>4 DEF BidInit, WorkTells

(* The strong form of the property gives the property: the last extension  *)
(* is the greatest of their numbers.                                       *)
LEMMA TellsOfLot ==
  ASSUME NEW alone, AuditInv(alone), NEW l \in Lots
  PROVE  /\ BidsAreTold(l)
         /\ alone \/ lot[l].status = "open" => DeadlineIsTold(l)
<1>. DEFINE es == events[l]
            bs == bids[l]
            deadlines == DeadlinesOf(lot[l], alone)
<1>1. TellsOf(es, bs, {}, deadlines)
  BY DEF AuditInv, TablesTell
<1>2. es \in Seq(EventRow) /\ bs \in Seq(BidRow)
  BY DEF AuditInv, EntryInv, BookInv, TypeInv, BidTypeOK, StoreTypeOK
<1>. HIDE DEF es, bs, deadlines
<1>3. \A i \in DOMAIN bs :
        \E e \in Priced(es) : es[e].bid = i /\ es[e].value = bs[i].amount
  BY <1>1 DEF TellsOf
<1>4. Cardinality(Priced(es)) = Len(bs)
  <2>1. Cardinality(Priced(es)) \in Nat /\ Cardinality({}) = 0
    BY <1>2, PricedFinite, FS_CardinalityType, FS_EmptySet
  <2>2. Cardinality(Priced(es)) + Cardinality({}) = Len(bs)
    BY <1>1 DEF TellsOf
  <2>. QED
    BY <2>1, <2>2
<1>5. ASSUME Extensions(es) # {}
      PROVE  es[Max(Extensions(es))].value \in deadlines
  <2>1. PICK e \in Extensions(es) :
               es[e].value \in deadlines /\ \A f \in Extensions(es) : f <= e
    BY <1>1, <1>5 DEF TellsOf
  <2>2. Extensions(es) \subseteq Nat
    <3>1. DOMAIN es = 1..Len(es) /\ Len(es) \in Nat
      BY <1>2, LenProperties
    <3>. QED
      BY <3>1 DEF Extensions
  <2>3. /\ Max(Extensions(es)) \in Extensions(es)
        /\ \A f \in Extensions(es) : Max(Extensions(es)) >= f
    <3>1. \A f \in Extensions(es) : e >= f
      BY <2>1, <2>2
    <3>. QED
      BY <3>1 DEF Max
  <2>4. Max(Extensions(es)) = e
    BY <2>1, <2>2, <2>3
  <2>. QED
    BY <2>1, <2>4
<1>6. BidsAreTold(l)
  BY <1>3, <1>4 DEF BidsAreTold, EventsOf, Priced, PricedTypes, es, bs
<1>7. ASSUME alone \/ lot[l].status = "open" PROVE DeadlineIsTold(l)
  BY <1>5, <1>7 DEF DeadlineIsTold, EventsOf, Extensions, DeadlinesOf, es, deadlines
<1>. QED
  BY <1>6, <1>7

(* The audit trail is complete in every reachable state: for every bid     *)
(* there is exactly one event, with its amount, and the last extension     *)
(* that the trail tells of is the deadline the lot really has.             *)
THEOREM AuditIsComplete == BidSpec => []AuditTrailComplete
<1>1. BidInit => TablesTell(TRUE) /\ WorkTells(TRUE)
  BY AuditInit
<1>2. AuditInv(TRUE) /\ [BidNext]_bidVars => TablesTell(TRUE)' /\ WorkTells(TRUE)'
  <2>. SUFFICES ASSUME AuditInv(TRUE), [BidNext]_bidVars
                PROVE  TablesTell(TRUE)' /\ WorkTells(TRUE)'
    OBVIOUS
  <2>1. CASE BidStep
    BY <2>1, WorkerStepTells DEF BidStep
  <2>2. CASE UNCHANGED <<lot, bids, events, pc, work>>
    BY <2>2, TrailUntouched
  <2>. QED
    BY <2>1, <2>2
    DEF BidNext, AllAnswered, ClockTicks, bidVars, storeVars, workerVars
<1>3. AuditInv(TRUE) => AuditTrailComplete
  BY TellsOfLot DEF AuditTrailComplete
<1>. QED
  BY <1>1, <1>2, <1>3, EntryInvHolds, PTL DEF BidSpec, AuditInv
=============================================================================
