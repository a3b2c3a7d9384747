----------------------------- MODULE KycStatus -----------------------------
(***************************************************************************)
(* The KYC columns of one user: kept in step with the review of the user's *)
(* applicant at Sumsub by webhooks and by KycService.reconcileUser,        *)
(* overridden by partner grants and admins, and read by the custody gate   *)
(* of a redeem.                                                            *)
(*                                                                         *)
(* Everyone ends in UserService.updateKycStatus, which reads the row,      *)
(* appends an audit event and saves the whole row; other handlers (login,  *)
(* profile) save the whole row too.  Webhooks come in any order, late, and *)
(* more than once.  Sumsub is configured.                                  *)
(***************************************************************************)
EXTENDS Naturals, FiniteSets

CONSTANTS
  KycCalls,     \* requests and webhooks in flight
  MaxKycCalls,  \* bound on the calls,
  MaxReviews,   \* on the changes of the review and of the partner's state,
  MaxKycFaults  \* and on failing calls and restarts

ASSUME KycAssumption ==
  MaxKycCalls \in Nat /\ MaxReviews \in Nat /\ MaxKycFaults \in Nat

VARIABLES
  applicant,   \* the review of the applicant in the current Sumsub app
  hooks,       \* reviews a webhook has reported or may report yet
  active,      \* is a linked wallet an active partner's
  user,        \* users: kyc_status, kyc_provider, kyc_external_id
  call,        \* where a call stands, and what it read
  synced,      \* history: a reconcile ran and nothing has changed since,
  kycCalls,    \*   calls,
  reviews,     \*   changes of the review or the partner,
  kycFaults    \*   and failures so far

outside == <<applicant, hooks, active>>
counts  == <<kycCalls, reviews, kycFaults>>
kycVars == <<outside, user, call, synced, counts>>

KycStates == {"none", "pending", "approved", "rejected"}
Reviews   == {"init", "pending", "awaiting", "green", "red"}
Users     == [status : KycStates, provider : {"null", "sumsub", "admin"},
              ext : {"null", "old", "current"}]

NewUser == [status |-> "none", provider |-> "null", ext |-> "null"]
\* Approved in a Sumsub app that is no longer the configured one.
OldUser == [status |-> "approved", provider |-> "sumsub", ext |-> "old"]

\* In review.
WaitingUser == [status |-> "pending", provider |-> "sumsub", ext |-> "current"]

\* op: the handler; pc: where; base: the row it works from; row: the row it
\* saves or returns; then: where updateKycStatus returns to.
NoCall == [op |-> "none", pc |-> "idle", base |-> NewUser, row |-> NewUser,
           then |-> "idle", seen |-> "none", failed |-> FALSE, alone |-> FALSE]

KycInit ==
  /\ active = FALSE
  /\ \/ applicant = "absent" /\ hooks = {} /\ user \in {NewUser, OldUser}
     \/ applicant = "pending" /\ hooks = {"init", "pending"} /\ user = WaitingUser
  /\ call = [c \in KycCalls |-> NoCall]
  /\ synced = FALSE /\ kycCalls = 0 /\ reviews = 0 /\ kycFaults = 0
-----------------------------------------------------------------------------
(* Rules                                                                   *)

\* mapSumsubReviewToKycStatus; a review status it does not know is "none" for
\* reconcile and, by the event's type, "pending" for a webhook.
Mapped(review, unknown) ==
  CASE review \in {"absent", "init"} -> "none"
    [] review = "pending"  -> "pending"
    [] review = "awaiting" -> unknown
    [] review = "green"    -> "approved"
    [] review = "red"      -> "rejected"

ReconciledTo == Mapped(applicant, "none")

Granted(u) == u.status = "approved" /\ u.provider = "admin"

\* Bug: whatever differs is applied.
AnyChange(from, to) == from # to

\* shouldApplyKycTransition
Applies(from, to) == from # to /\ ~(from = "approved" /\ to = "pending")

\* Bug: reconcile asks the webhook's rule, "never approved to pending".
WebhookRule(u) ==
  IF Granted(u) \/ ~Applies(u.status, ReconciledTo) THEN {} ELSE {ReconciledTo}

\* What reconcile changes the status to, if anything.
Reconciles(u) ==
  IF \/ Granted(u) /\ ReconciledTo # "approved"
     \/ u.status = ReconciledTo /\ (applicant = "absent" \/ u.ext = "current")
  THEN {} ELSE {ReconciledTo}

Quietly(c, r) == call' = [call EXCEPT ![c] = r] /\ UNCHANGED synced

\* reconcileUser returned row: the gate lets the request go on or answers 403,
\* createAccessToken goes on.
Returns(r, row) ==
  IF r.op = "token" THEN [r EXCEPT !.pc = "token", !.row = row, !.alone = FALSE]
  ELSE IF row.status # "approved" THEN NoCall
  ELSE [NoCall EXCEPT !.op = r.op, !.pc = "passed", !.row = row,
                       !.seen = r.seen, !.failed = r.failed]

\* updateKycStatus is called from the row u and returns to `then`.
CallsUpdate(r, status, provider, ext, then) ==
  [r EXCEPT !.pc = "update", !.then = then,
            !.row = [status |-> status, provider |-> provider, ext |-> ext]]
-----------------------------------------------------------------------------
(* Sumsub and the admins                                                   *)
Review(r) ==
  /\ reviews < MaxReviews
  /\ \/ applicant = "absent" /\ r = "init"
     \/ applicant = "init" /\ r \in {"pending", "awaiting"}
     \/ applicant \in {"pending", "awaiting"} /\ r \in Reviews \ {applicant}
     \/ applicant \in {"green", "red"} /\ r \in {"init", "pending", "red"} \ {applicant}
  /\ reviews' = reviews + 1
  /\ applicant' = r
  /\ hooks' = hooks \cup {r}
  /\ call' = [c \in KycCalls |-> [call[c] EXCEPT !.alone = FALSE]]
  /\ synced' = FALSE
  /\ UNCHANGED <<active, user, kycCalls, kycFaults>>

SetPartner(on) ==
  /\ reviews < MaxReviews
  /\ reviews' = reviews + 1
  /\ active # on
  /\ active' = on
  /\ UNCHANGED <<applicant, hooks, user, call, synced, kycCalls, kycFaults>>
-----------------------------------------------------------------------------
(* Calls                                                                   *)
FreeCall == CHOOSE c \in KycCalls : call[c].pc = "idle"

Starts(c, op, pc) ==
  /\ call[c].pc = "idle" /\ c = FreeCall
  /\ kycCalls < MaxKycCalls
  /\ kycCalls' = kycCalls + 1
  /\ call' = [call EXCEPT ![c] =
       [NoCall EXCEPT !.op = op, !.pc = pc, !.base = user, !.row = user,
                       !.alone = (op # "profile")]]
  /\ UNCHANGED <<outside, user, synced, reviews, kycFaults>>

\* The custody gate and GET kyc/status; the SDK's token; an upload of a picture
\* or a login.
StartGate(c)    == Starts(c, "gate", "partner")
StartToken(c)   == Starts(c, "token", "fetch")
StartProfile(c) == Starts(c, "profile", "save")

\* handlePayload: find the user, map the review, ask shouldApply.
StartHook(c, r) ==
  LET to == Mapped(r, "pending") IN
  /\ r \in hooks
  /\ call[c].pc = "idle" /\ c = FreeCall
  /\ kycCalls < MaxKycCalls
  /\ kycCalls' = kycCalls + 1
  /\ IF Applies(user.status, to)
     THEN Quietly(c, CallsUpdate([NoCall EXCEPT !.op = "hook", !.base = user,
                                                 !.seen = r],
                                 to, "sumsub", "current", "idle"))
     ELSE UNCHANGED <<call, synced>>
  /\ UNCHANGED <<outside, user, reviews, kycFaults>>

\* updateUserKyc: the provider of the row stays, "admin" only if it has none.
StartOverride(c, to) ==
  LET by == IF user.provider = "null" THEN "admin" ELSE user.provider IN
  /\ call[c].pc = "idle" /\ c = FreeCall
  /\ kycCalls < MaxKycCalls
  /\ kycCalls' = kycCalls + 1
  /\ Quietly(c, CallsUpdate([NoCall EXCEPT !.op = "override", !.base = user],
                            to, by, user.ext, "idle"))
  /\ UNCHANGED <<outside, user, reviews, kycFaults>>

\* GET auth/session (approveKycIfActivePartner), and the admin's grant itself
\* (maybeApproveKycForPartnerGrant).
StartGrant(c) ==
  /\ active /\ user.status # "approved"
  /\ call[c].pc = "idle" /\ c = FreeCall
  /\ kycCalls < MaxKycCalls
  /\ kycCalls' = kycCalls + 1
  /\ Quietly(c, CallsUpdate([NoCall EXCEPT !.op = "grant", !.base = user],
                            "approved", "admin", user.ext, "idle"))
  /\ UNCHANGED <<outside, user, reviews, kycFaults>>

\* approveKycIfActivePartner
CheckPartner(c) ==
  LET r == call[c] IN
  /\ r.pc = "partner"
  /\ IF active /\ r.base.status # "approved"
     THEN Quietly(c, CallsUpdate(r, "approved", "admin", r.base.ext, "fetch"))
     ELSE Quietly(c, [r EXCEPT !.pc = "fetch"])
  /\ UNCHANGED <<outside, user, counts>>

\* reconcileUser: the applicant is fetched and compared with the row read
\* before.
Fetch(c) ==
  LET r   == [call[c] EXCEPT !.seen = applicant]
      ext == IF applicant = "absent" THEN "null" ELSE "current" IN
  /\ r.pc = "fetch"
  /\ IF Reconciles(r.base) = {}
     THEN /\ call' = [call EXCEPT ![c] = Returns(r, r.base)]
          /\ synced' = (synced \/ r.alone)
     ELSE \E to \in Reconciles(r.base) :
            Quietly(c, CallsUpdate(r, to, "sumsub", ext, "return"))
  /\ UNCHANGED <<outside, user, counts>>

\* createAccessToken: an applicant is found or created, its id saved with the
\* status read before.
GetApplicant(c) ==
  LET r == call[c] IN
  /\ r.pc = "token"
  /\ IF r.row.ext = "null"
     THEN /\ applicant' = IF applicant = "absent" THEN "init" ELSE applicant
          /\ Quietly(c, CallsUpdate([r EXCEPT !.base = r.row],
                                    r.row.status, "sumsub", "current", "idle"))
     ELSE UNCHANGED applicant /\ Quietly(c, NoCall)
  /\ UNCHANGED <<hooks, active, user, counts>>

\* updateKycStatus reads the row again ...
ReadRow(c) ==
  LET r == call[c] IN
  /\ r.pc = "update"
  /\ Quietly(c, [r EXCEPT !.pc = "save",
                  !.row.ext = IF @ = "null" THEN user.ext ELSE @])
  /\ UNCHANGED <<outside, user, counts>>

\* ... and saves all of it, after the audit event.
SaveRow(c) ==
  LET r == call[c] IN
  /\ r.pc = "save"
  /\ user' = r.row
  /\ call' = [d \in KycCalls |->
       IF d # c THEN [call[d] EXCEPT !.alone = FALSE]
       ELSE CASE r.then = "idle"   -> NoCall
              [] r.then = "fetch"  -> [r EXCEPT !.pc = "fetch", !.base = r.row]
              [] r.then = "return" -> Returns(r, r.row)]
  /\ synced' = (r.then = "return" /\ r.alone)
  /\ UNCHANGED <<outside, counts>>

PassGate(c) ==
  /\ call[c].pc = "passed"
  /\ Quietly(c, NoCall)
  /\ UNCHANGED <<outside, user, counts>>

\* An error of Sumsub is caught in reconcileUser, which returns the row it was
\* given.  Any other ends the call: the update is returned, not awaited, inside
\* the try.
KycFails(c) ==
  LET r == call[c] IN
  /\ r.pc \in {"partner", "fetch", "token", "update", "save"}
  /\ kycFaults < MaxKycFaults
  /\ kycFaults' = kycFaults + 1
  /\ IF r.pc = "fetch"
     THEN Quietly(c, Returns([r EXCEPT !.failed = TRUE], r.base))
     ELSE Quietly(c, NoCall)
  /\ UNCHANGED <<outside, user, kycCalls, reviews>>

KycRestart ==
  /\ kycFaults < MaxKycFaults
  /\ kycFaults' = kycFaults + 1
  /\ call' = [c \in KycCalls |-> NoCall]
  /\ UNCHANGED <<outside, user, synced, kycCalls, reviews>>

KycNext ==
  \/ \E r \in Reviews : Review(r)
  \/ \E on \in BOOLEAN : SetPartner(on)
  \/ \E c \in KycCalls :
       \/ StartGate(c) \/ StartToken(c) \/ StartProfile(c)
       \/ StartGrant(c)
       \/ \E r \in Reviews : StartHook(c, r)
       \/ \E s \in KycStates : StartOverride(c, s)
       \/ CheckPartner(c) \/ Fetch(c) \/ GetApplicant(c)
       \/ ReadRow(c) \/ SaveRow(c) \/ PassGate(c) \/ KycFails(c)
  \/ KycRestart

KycSpec == KycInit /\ [][KycNext]_kycVars
-----------------------------------------------------------------------------
(* Properties                                                              *)

KycTypeOK ==
  /\ applicant \in Reviews \cup {"absent"} /\ hooks \in SUBSET Reviews
  /\ active \in BOOLEAN /\ synced \in BOOLEAN
  /\ user \in Users
  /\ call \in [KycCalls ->
       [op : {"none", "gate", "token", "profile", "hook",
              "override", "grant"},
        pc : {"idle", "partner", "fetch", "token", "update", "save", "passed"},
        base : Users, row : Users,
        then : {"idle", "fetch", "return"},
        seen : Reviews \cup {"none", "absent"},
        failed : BOOLEAN, alone : BOOLEAN]]
  /\ kycCalls \in Nat /\ reviews \in Nat /\ kycFaults \in Nat

\* assertApprovedForCustody: a redeem goes on only if the request itself saw
\* the applicant approved, or an admin's grant, or could not ask Sumsub.
\* An approval of a former app, or from before a new review, does not count.
PassedGatesHonest ==
  \A c \in KycCalls :
    call[c].pc = "passed" =>
      call[c].seen = "green" \/ Granted(call[c].row) \/ call[c].failed

\* "current app is source of truth (incl. stale DB downgrade)": after a
\* reconcile nobody interfered with, the row has the applicant's status, or an
\* admin's grant.
CurrentAppIsTruth == synced => user.status = ReconciledTo \/ Granted(user)

\* An approval ends through an admin, a webhook of a new or a red review, a
\* reconcile that saw another review and no grant, or a save of a row read
\* before the approval; never through a late "pending".
ApprovalsEndForCause ==
  [][user.status = "approved" /\ user'.status # "approved" =>
       \E c \in KycCalls :
         LET r == call[c] IN
         /\ r.pc = "save" /\ r.row = user'
         /\ \/ r.base.status # "approved"
            \/ r.op = "override"
            \/ r.op = "hook" /\ r.seen \in {"init", "red"}
            \/ r.op \in {"gate", "token"} /\ r.seen # "green" /\ ~Granted(r.base)
    ]_kycVars
=============================================================================
