------------------------------ MODULE Compliance -------------------------------
(***************************************************************************)
(* The ComplianceEngine of packages/security, for one user: KYC tiers and  *)
(* their daily limits, the AML rules, account restrictions and the travel  *)
(* rule.  Every gateway replica has an engine of its own, whose maps are   *)
(* consulted before PostgreSQL and are not filled by reading; a restart    *)
(* empties them.  ReviewKYC and UpdateAlert have no caller, so a KYC       *)
(* status is PENDING or IN_REVIEW and blocks nothing, and the only         *)
(* restriction of production is MONITOR.  Amounts are whole units; all     *)
(* that happens lies within the hour and the day the queries look back.    *)
(***************************************************************************)
EXTENDS Integers, FiniteSets

CONSTANTS
    Replicas,        \* gateway processes
    Ids,             \* withdrawals the user asks for
    Amount,          \* [Ids -> Nat]
    Tiers,           \* bound: tiers the user submits, each at most once
    RecentDeposits,  \* rows of deposits in the last hour, to begin with
    NewDeposits      \* bound: deposits that are detected meanwhile

NoTier == "NONE"

ASSUME ComplianceAssumption ==
    /\ IsFiniteSet(Replicas)
    /\ Amount \in [Ids -> Nat]
    /\ NoTier \notin Tiers
    /\ RecentDeposits \in Nat
    /\ NewDeposits \in Nat

VARIABLES
    profile,    \* kycProfiles[user].Tier in each replica
    kycRow,     \* kyc_profiles.tier
    monitored,  \* replicas whose restrictions map says MONITOR
    restRow,    \* account_restrictions says MONITOR
    alerts,     \* compliance_alerts, as <<rule, withdrawal>>
    travel,     \* travel_rule_records.status of each withdrawal
    deposits,   \* the user's rows of deposits in the last hour
    claimed     \* history: tiers submitted

engineVars == <<profile, kycRow, monitored, restRow, alerts, travel, deposits, claimed>>

(* WithdrawalLimitDaily of NewComplianceEngine; another tier has no limits *)
(* and nothing can be withdrawn.                                           *)
Limit == [BASIC |-> 1000, STANDARD |-> 10000, ADVANCED |-> 100000, INSTITUTIONAL |-> 1000000]

EngineTypeOK ==
    /\ profile \in [Replicas -> Tiers \cup {NoTier}]
    /\ kycRow \in Tiers \cup {NoTier}
    /\ monitored \subseteq Replicas
    /\ restRow \in BOOLEAN
    /\ alerts \subseteq {"amount", "velocity"} \X Ids
    /\ travel \in [Ids -> {"NONE", "MISSING_INFO", "COMPLIANT"}]
    /\ deposits \in Nat
    /\ claimed \subseteq Tiers

EngineInit ==
    /\ profile = [g \in Replicas |-> NoTier]
    /\ kycRow = NoTier
    /\ monitored = {}
    /\ restRow = FALSE
    /\ alerts = {}
    /\ travel = [w \in Ids |-> "NONE"]
    /\ deposits = RecentDeposits
    /\ claimed = {}

-------------------------------------------------------------------------------
(* The tier is the requested one at once, in review or not. *)
SubmitKYC(g, t) ==
    /\ t \notin claimed
    /\ claimed' = claimed \cup {t}
    /\ profile' = [profile EXCEPT ![g] = t]
    /\ kycRow' = t
    /\ UNCHANGED <<monitored, restRow, alerts, travel, deposits>>

(* The INSERT fails; a profile the replica had is changed already. *)
SubmitKYCFails(g, t) ==
    /\ t \notin claimed
    /\ claimed' = claimed \cup {t}
    /\ profile' = IF profile[g] = NoTier THEN profile ELSE [profile EXCEPT ![g] = t]
    /\ UNCHANGED <<kycRow, monitored, restRow, alerts, travel, deposits>>

(* getKYC *)
Tier(g) == CASE profile[g] # NoTier -> profile[g]
             [] kycRow # NoTier     -> kycRow
             [] OTHER               -> "BASIC"

(* getRestriction *)
Restriction(g) == IF g \in monitored \/ restRow THEN "MONITOR" ELSE "NORMAL"

Blocking == {"FULLY_RESTRICTED", "WITHDRAWAL_RESTRICTED", "UNDER_REVIEW"}

(* Mutant: the amount is held against the limit alone. *)
BugCheckLimits(w, tier, total) == tier \in DOMAIN Limit /\ Amount[w] <= Limit[tier]

CheckLimits(w, tier, total) == tier \in DOMAIN Limit /\ total + Amount[w] <= Limit[tier]

(* ScreenSanctions: the provider finds no match; every other answer and *)
(* every error blocks.                                                  *)
Screened == {"CLEAR"}
ScreenSanctions == {"CLEAR", "MATCH", "ERROR"}

(* CheckWithdrawalAllowed, with what getKYC and the SUM of the user's   *)
(* recent withdrawals have answered.                                    *)
CheckWithdrawalAllowed(g, w, tier, total, verdict) ==
    /\ Restriction(g) \notin Blocking
    /\ CheckLimits(w, tier, total)
    /\ verdict \in Screened

-------------------------------------------------------------------------------
(* EvaluateAML *)

CreateAlert(rule, w) ==
    /\ alerts' = alerts \cup {<<rule, w>>}
    /\ UNCHANGED <<profile, kycRow, monitored, restRow, travel, deposits, claimed>>

Unusual(w) == Amount[w] >= 5000

(* One COUNT over the user's rows of withdrawals and deposits. *)
TooFast(rows) == rows + deposits >= 5

(* RestrictAccount(MONITOR): the map, then the row, whose error the caller *)
(* drops.  users.status becomes RESTRICTED, which RBAC lets through.       *)
RestrictAccount(g, stored) ==
    /\ monitored' = monitored \cup {g}
    /\ restRow' = (restRow \/ stored)
    /\ UNCHANGED <<profile, kycRow, alerts, travel, deposits, claimed>>

TravelRuleApplies(w) == Amount[w] >= 1000

(* RegisterTravelRule: the record is stored, complete or not. *)
RegisterTravelRule(w, names) ==
    /\ travel' = [travel EXCEPT ![w] = IF names THEN "COMPLIANT" ELSE "MISSING_INFO"]
    /\ UNCHANGED <<profile, kycRow, monitored, restRow, alerts, deposits, claimed>>

(* The wallet worker stores a deposit of the user.  It evaluates no rule:  *)
(* only the next withdrawal looks at the row.                              *)
RecordDeposit ==
    /\ deposits < RecentDeposits + NewDeposits
    /\ deposits' = deposits + 1
    /\ UNCHANGED <<profile, kycRow, monitored, restRow, alerts, travel, claimed>>

(* A new process starts with empty maps. *)
NewComplianceEngine(g) ==
    /\ profile' = [profile EXCEPT ![g] = NoTier]
    /\ monitored' = monitored \ {g}
    /\ UNCHANGED <<kycRow, restRow, alerts, travel, deposits, claimed>>
===============================================================================
