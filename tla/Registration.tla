---------------------------- MODULE Registration ----------------------------
(***************************************************************************)
(* POST /bidders/:id/register of src/routes/bidders.ts: the auction's      *)
(* status is read, the identity verification service is asked, and the     *)
(* bidder's tier and the registration are stored in one transaction.       *)
(*                                                                         *)
(*   absent -> verifying -> connecting -> updating -> inserting            *)
(*         \-> closed   \-> noVerdict                \-> registered        *)
(*   connecting, updating, inserting -> error                              *)
(***************************************************************************)
EXTENDS Integers

CONSTANTS
  Null,
  Applications,   \* requests at POST /bidders/:id/register
  ApplicantOf,    \* request -> the bidder, who exists
  SaleOf,         \* request -> the auction, which exists
  Tiers,          \* verification_tier
  NewTier         \* the tier of a bidder who is not verified yet

VARIABLES
  form,           \* request -> where it is, and the verdict it was given
  saleOpen,       \* auctions: FALSE when closed, settled or cancelled
  tier,           \* bidders.verification_tier
  registration    \* auction_registrations: bidder and auction -> row, or Null

registrationVars == <<form, saleOpen, tier, registration>>

ASSUME RegistrationAssumption == NewTier \in Tiers /\ Null \notin [tier: Tiers, eligible: BOOLEAN]

Applicants == {ApplicantOf[f] : f \in Applications}
Sales == {SaleOf[f] : f \in Applications}

(* What the service answers.  The deposit it asks for depends on the tier, *)
(* so a row that stores the deposit is a row that stores the verdict.      *)
Verdict == [tier: Tiers, eligible: BOOLEAN]

FormFinal == {"registered", "closed", "noVerdict", "error", "unavailable"}
FormStage == {"absent", "verifying", "connecting", "updating", "inserting"} \cup FormFinal

RegistrationInit ==
  /\ form = [f \in Applications |-> [at |-> "absent", verdict |-> Null]]
  /\ saleOpen = [a \in Sales |-> TRUE]
  /\ tier = [b \in Applicants |-> NewTier]
  /\ registration = [b \in Applicants |-> [a \in Sales |-> Null]]

(* The operator closes or cancels the auction.                             *)
SaleEnds(a) ==
  /\ saleOpen[a]
  /\ saleOpen' = [saleOpen EXCEPT ![a] = FALSE]
  /\ UNCHANGED <<form, tier, registration>>

(* SELECT of the bidder and of the auction.                                *)
Apply(f) ==
  /\ form[f].at = "absent"
  /\ form' = [form EXCEPT ![f].at = IF saleOpen[SaleOf[f]] THEN "verifying" ELSE "closed"]
  /\ UNCHANGED <<saleOpen, tier, registration>>

(* The verification service answers; or it fails, or does not answer in    *)
(* five seconds.                                                           *)
Verified(f) ==
  /\ form[f].at = "verifying"
  /\ \E v \in Verdict : form' = [form EXCEPT ![f] = [at |-> "connecting", verdict |-> v]]
  /\ UNCHANGED <<saleOpen, tier, registration>>

NotVerified(f) ==
  /\ form[f].at = "verifying"
  /\ form' = [form EXCEPT ![f].at = "noVerdict"]
  /\ UNCHANGED <<saleOpen, tier, registration>>

(* withTransaction: a client of the pool, and BEGIN.                       *)
RegisterBegins(f) ==
  /\ form[f].at = "connecting"
  /\ form' = [form EXCEPT ![f].at = "updating"]
  /\ UNCHANGED <<saleOpen, tier, registration>>

(* Mutant: the UPDATE is a transaction of its own.                         *)
UpdateTierAtOnce(f) ==
  /\ form[f].at = "updating"
  /\ tier' = [tier EXCEPT ![ApplicantOf[f]] = form[f].verdict.tier]
  /\ form' = [form EXCEPT ![f].at = "inserting"]
  /\ UNCHANGED <<saleOpen, registration>>

(* UPDATE bidders: the row stays locked until the transaction ends.        *)
UpdateTier(f) ==
  /\ form[f].at = "updating"
  /\ \A g \in Applications : ApplicantOf[g] = ApplicantOf[f] => form[g].at # "inserting"
  /\ form' = [form EXCEPT ![f].at = "inserting"]
  /\ UNCHANGED <<saleOpen, tier, registration>>

(* The upsert of the registration, and COMMIT.                             *)
Register(f) ==
  LET b == ApplicantOf[f]  v == form[f].verdict IN
  /\ form[f].at = "inserting"
  /\ tier' = [tier EXCEPT ![b] = v.tier]
  /\ registration' = [registration EXCEPT ![b][SaleOf[f]] = v]
  /\ form' = [form EXCEPT ![f].at = "registered"]
  /\ UNCHANGED saleOpen

(* The pool gives no client, or a statement fails and withTransaction      *)
(* rolls back: the answer is 500.                                          *)
RegisterFails(f) ==
  /\ form[f].at \in {"connecting", "updating", "inserting"}
  /\ form' = [form EXCEPT ![f].at = "error"]
  /\ UNCHANGED <<saleOpen, tier, registration>>

RegistrationStep(f) ==
  Verified(f) \/ NotVerified(f) \/ UpdateTier(f) \/ Register(f) \/ RegisterFails(f)

-----------------------------------------------------------------------------
(* Properties.                                                             *)

RegistrationTypeOK ==
  /\ form \in [Applications -> [at: FormStage, verdict: Verdict \cup {Null}]]
  /\ saleOpen \in [Sales -> BOOLEAN]
  /\ tier \in [Applicants -> Tiers]
  /\ registration \in [Applicants -> [Sales -> Verdict \cup {Null}]]

(* The tier of a bidder is the one that one of its registrations was made  *)
(* with, and that of a bidder without registrations is untouched, however  *)
(* requests for several auctions interleave and whichever statement fails. *)
RegisteredAsVerified ==
  \A b \in Applicants :
    LET made == {registration[b][a] : a \in Sales} \ {Null} IN
    IF made = {} THEN tier[b] = NewTier ELSE \E v \in made : v.tier = tier[b]
=============================================================================
