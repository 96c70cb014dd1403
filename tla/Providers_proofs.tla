-------------------------- MODULE Providers_proofs --------------------------
(***************************************************************************)
(* Proofs about Providers, for any URLs, any configuration and any add-ons *)
(* of the account.                                                         *)
(***************************************************************************)
EXTENDS Providers, TLAPS

(* The inductive invariant: which roles each stage of the setup has, what   *)
(* it could go back to, and whose roles are loaded.                         *)
StageInv ==
  /\ stage \in {"first", "secondary"} => roles = Manual /\ private = {}
  /\ stage \in {"account", "rollback"} => roles = AsConfigured /\ private = {}
  /\ stage = "install" =>
       /\ private # {}
       /\ saved.roles = AsConfigured
       /\ saved.clients = {u \in Urls : AsConfigured[u] # {}}
  /\ stage = "loaded" /\ private = {} => roles = AsConfigured

RoleInv ==
  /\ \A u \in Urls : roles[u] # {} => AsConfigured[u] # {} \/ u \in private
  /\ \A u \in Urls : addons[u] \subseteq IF stage = "install" THEN AsConfigured[u]
                                                              ELSE roles[u]

IInv ==
  /\ TypeOK
  /\ StageInv
  /\ RoleInv
  /\ ManualRetained
  /\ OnceReadyAlwaysServing
  /\ OnlyOwnUrlsShown

(* The configured roles are what a manager starts with and what a secondary *)
(* provider adds.                                                           *)
LEMMA AsConfiguredFacts ==
  /\ AsConfigured \in [Urls -> SUBSET Roles]
  /\ \A u \in Urls : Manual[u] \subseteq AsConfigured[u]
  /\ secondary = NoUrl => AsConfigured = Manual
  /\ secondary # NoUrl =>
       AsConfigured = [Manual EXCEPT ![secondary] = @ \cup {"stream"}]
<1> USE ConfigurationOK DEF AsConfigured, Roles, MainRoles
<1>1. Manual = [u \in Urls |-> Manual[u]]
  OBVIOUS
<1>2. secondary = NoUrl => \A u \in Urls : u # secondary
  OBVIOUS
<1> QED BY <1>1, <1>2

(* What a refresh loads is what the manager has for the URLs that answered; *)
(* a refresh that raises changes nothing.                                   *)
LEMMA RefreshLoads ==
  ASSUME NEW up \in SUBSET Urls, AsyncRefresh(up), roles' \in [Urls -> SUBSET Roles],
         addons \in [Urls -> SUBSET Roles], errors \subseteq Urls, clients' \subseteq Urls
  PROVE  /\ addons' \in [Urls -> SUBSET Roles]
         /\ errors' \subseteq Urls
         /\ \A u \in Urls : addons'[u] \in {addons[u], roles'[u], {}}
         /\ up = {} => addons' = addons
         /\ up # {} => \A u \in Urls : addons'[u] = IF u \in up THEN roles'[u] ELSE {}
BY DEF AsyncRefresh, loads

(* The manager a setup starts with.                                         *)
LEMMA InitIInv == Init => IInv
<1> SUFFICES ASSUME Init PROVE IInv
  OBVIOUS
<1> USE ConfigurationOK, AsConfiguredFacts DEF Init, NewManager, NotLoaded, Configured
<1>1. TypeOK
  BY DEF TypeOK, Roles
<1>2. StageInv /\ RoleInv
  BY DEF StageInv, RoleInv
<1>3. ManualRetained /\ OnceReadyAlwaysServing /\ OnlyOwnUrlsShown
  BY DEF ManualRetained, OnceReadyAlwaysServing, OnlyOwnUrlsShown
<1> QED BY <1>1, <1>2, <1>3 DEF IInv

-----------------------------------------------------------------------------
(* The first refresh: what answers is loaded and shown.                     *)
LEMMA FirstStep == ASSUME IInv, NEW up \in SUBSET Urls, FirstRefresh(up) PROVE IInv'
<1> USE ConfigurationOK, AsConfiguredFacts DEF IInv
<1>1. /\ stage = "first" /\ up \subseteq clients /\ AsyncRefresh(up)
      /\ UNCHANGED <<clients, roles, mode, secondary, saved, private>>
      /\ up = {} => stage' = "first" /\ shown' = shown
      /\ up # {} => stage' = "secondary" /\ shown' = {u \in Urls : addons'[u] # {}} \ private
      /\ roles = Manual /\ private = {}
  BY DEF FirstRefresh, manager, options, Publish, StageInv
<1>2. AsConfigured' = AsConfigured
  BY <1>1 DEF AsConfigured
<1>3. /\ addons' \in [Urls -> SUBSET Roles] /\ errors' \subseteq Urls
      /\ up = {} => addons' = addons
      /\ up # {} => \A u \in Urls : addons'[u] = IF u \in up THEN roles[u] ELSE {}
  BY <1>1, RefreshLoads DEF TypeOK
<1>4. TypeOK'
  BY <1>1, <1>3 DEF TypeOK
<1>5. StageInv' /\ ManualRetained'
  BY <1>1, <1>2 DEF StageInv, ManualRetained
<1>6. RoleInv'
  BY <1>1, <1>2, <1>3 DEF RoleInv
<1>7. OnceReadyAlwaysServing'
  BY <1>1, <1>3 DEF OnceReadyAlwaysServing, TypeOK
<1>8. OnlyOwnUrlsShown'
  BY <1>1, <1>2, <1>3 DEF OnlyOwnUrlsShown
<1> QED BY <1>4, <1>5, <1>6, <1>7, <1>8

(* The secondary provider brings the roles to what the options state.       *)
LEMMA SecondaryStep ==
  ASSUME IInv, NEW up \in SUBSET Urls, InstallSecondary(up) PROVE IInv'
<1> USE ConfigurationOK, AsConfiguredFacts DEF IInv
<1>1. /\ stage = "secondary" /\ stage' = "account"
      /\ UNCHANGED <<mode, secondary, saved, private, shown>>
      /\ roles = Manual /\ private = {}
  BY DEF InstallSecondary, options, StageInv
<1>2. AsConfigured' = AsConfigured
  BY <1>1 DEF AsConfigured
<1>3. roles' = AsConfigured /\ clients' = {u \in Urls : AsConfigured[u] # {}}
  <2>1. CASE secondary = NoUrl
    BY <1>1, <2>1 DEF InstallSecondary, manager, TypeOK
  <2>2. CASE secondary # NoUrl
    <3>1. /\ roles' = [Manual EXCEPT ![secondary] = @ \cup {"stream"}]
          /\ clients' = {u \in Urls : Manual[u] # {}} \cup {secondary}
          /\ secondary \in Urls
      BY <1>1, <2>2 DEF InstallSecondary, TypeOK
    <3>2. \A u \in Urls : AsConfigured[u] # {} <=> Manual[u] # {} \/ u = secondary
      BY <2>2, <3>1
    <3> QED BY <2>2, <3>1, <3>2
  <2> QED BY <2>1, <2>2
<1>4. /\ addons' \in [Urls -> SUBSET Roles] /\ errors' \subseteq Urls
      /\ \A u \in Urls : addons'[u] \in {addons[u], roles'[u], {}}
      /\ addons' = addons \/ \E u \in Urls : addons'[u] # {}
  <2>1. CASE secondary = NoUrl
    BY <2>1 DEF InstallSecondary, loads, TypeOK
  <2>2. CASE secondary # NoUrl
    <3>1. up \subseteq clients' /\ AsyncRefresh(up)
      BY <2>2 DEF InstallSecondary
    <3> QED BY <1>3, <3>1, RefreshLoads DEF TypeOK
  <2> QED BY <2>1, <2>2
<1>5. TypeOK'
  BY <1>1, <1>3, <1>4 DEF TypeOK
<1>6. StageInv'
  BY <1>1, <1>2, <1>3 DEF StageInv
<1>7. RoleInv'
  BY <1>1, <1>2, <1>3, <1>4 DEF RoleInv
<1>8. ManualRetained'
  BY <1>1, <1>3 DEF ManualRetained
<1>9. OnceReadyAlwaysServing' /\ OnlyOwnUrlsShown'
  BY <1>1, <1>2, <1>4 DEF OnceReadyAlwaysServing, OnlyOwnUrlsShown
<1> QED BY <1>5, <1>6, <1>7, <1>8, <1>9

(* The account's add-ons join, and what was there before is remembered.     *)
LEMMA InstallStep ==
  ASSUME IInv, NEW found \in SUBSET Urls, InstallAccount(found) PROVE IInv'
<1> DEFINE base == IF mode = "account" THEN WithoutMain(roles) ELSE roles
           kept == IF mode = "account" THEN {u \in clients : base[u] # {}} ELSE clients
<1> USE ConfigurationOK, AsConfiguredFacts DEF IInv
<1>1. /\ stage = "account" /\ stage' = "install" /\ found # {} /\ private' = found
      /\ \A u \in found : Account[u] # {}
      /\ saved' = [clients |-> clients, roles |-> roles]
      /\ clients' = kept \cup found
      /\ roles' = [u \in Urls |-> base[u] \cup (IF u \in found THEN Account[u] ELSE {})]
      /\ UNCHANGED <<mode, secondary, addons, errors, shown>>
      /\ roles = AsConfigured /\ clients = {u \in Urls : roles[u] # {}}
  BY DEF InstallAccount, options, loads, StageInv, TypeOK
<1>2. AsConfigured' = AsConfigured
  BY <1>1 DEF AsConfigured
<1>3. /\ \A u \in Urls : base[u] = IF mode = "account" THEN roles[u] \ MainRoles ELSE roles[u]
      /\ \A u \in Urls : base[u] \subseteq roles[u]
      /\ kept = {u \in Urls : base[u] # {}}
  BY <1>1 DEF WithoutMain
<1> HIDE DEF base, kept
<1>4. \A u \in Urls : roles'[u] = base[u] \cup (IF u \in found THEN Account[u] ELSE {})
  BY <1>1
<1>5. TypeOK'
  <2>1. roles' \in [Urls -> SUBSET Roles]
    BY <1>1, <1>3 DEF TypeOK, Roles
  <2>2. clients' = {u \in Urls : roles'[u] # {}}
    BY <1>1, <1>3, <1>4
  <2>3. saved' \in [clients : SUBSET Urls, roles : [Urls -> SUBSET Roles]]
    BY <1>1
  <2> QED BY <1>1, <2>1, <2>2, <2>3 DEF TypeOK
<1>6. StageInv'
  BY <1>1, <1>2 DEF StageInv
<1>7. RoleInv'
  BY <1>1, <1>2, <1>3, <1>4 DEF RoleInv
<1>8. ManualRetained'
  <2>1. "sports" \notin MainRoles
    BY DEF MainRoles
  <2>2. \A u \in Urls : "sports" \in roles[u] => "sports" \in roles'[u]
    BY <1>3, <1>4, <2>1
  <2>3. mode # "account" => \A u \in Urls : roles[u] \subseteq roles'[u]
    BY <1>3, <1>4
  <2> QED BY <1>1, <2>2, <2>3 DEF ManualRetained
<1>9. OnceReadyAlwaysServing' /\ OnlyOwnUrlsShown'
  BY <1>1, <1>2 DEF OnceReadyAlwaysServing, OnlyOwnUrlsShown
<1> QED BY <1>5, <1>6, <1>7, <1>8, <1>9

(* The installation keeps the merged roles or restores the saved ones.      *)
LEMMA InstallRefreshStep ==
  ASSUME IInv, NEW up \in SUBSET Urls, InstallRefresh(up) PROVE IInv'
<1> USE ConfigurationOK, AsConfiguredFacts DEF IInv
<1>1. /\ stage = "install" /\ up \subseteq clients /\ AsyncRefresh(up)
      /\ UNCHANGED <<mode, secondary, saved, shown>>
      /\ private # {} /\ saved.roles = AsConfigured
      /\ saved.clients = {u \in Urls : AsConfigured[u] # {}}
      /\ \A u \in Urls : addons[u] \subseteq AsConfigured[u]
  BY DEF InstallRefresh, options, StageInv, RoleInv
<1>2. AsConfigured' = AsConfigured
  BY <1>1 DEF AsConfigured
<1>3. CASE up # {} /\ stage' = "loaded" /\ UNCHANGED <<clients, roles, private>>
  <2>1. /\ addons' \in [Urls -> SUBSET Roles] /\ errors' \subseteq Urls
        /\ \A u \in Urls : addons'[u] = IF u \in up THEN roles[u] ELSE {}
    BY <1>1, <1>3, RefreshLoads DEF TypeOK
  <2>2. TypeOK'
    BY <1>1, <1>3, <2>1 DEF TypeOK
  <2>3. StageInv' /\ ManualRetained'
    BY <1>1, <1>2, <1>3 DEF StageInv, ManualRetained
  <2>4. RoleInv'
    BY <1>2, <1>3, <2>1 DEF RoleInv
  <2>5. OnceReadyAlwaysServing' /\ OnlyOwnUrlsShown'
    BY <1>1, <1>2, <1>3, <2>1 DEF OnceReadyAlwaysServing, OnlyOwnUrlsShown, TypeOK
  <2> QED BY <2>2, <2>3, <2>4, <2>5
<1>4. CASE /\ up = {} /\ stage' = "rollback" /\ private' = {}
           /\ clients' = saved.clients /\ roles' = saved.roles
  <2>1. addons' = addons /\ errors' = errors
    BY <1>1, <1>4 DEF AsyncRefresh, loads
  <2>2. TypeOK'
    BY <1>1, <1>4, <2>1 DEF TypeOK
  <2>3. StageInv' /\ ManualRetained'
    BY <1>1, <1>2, <1>4 DEF StageInv, ManualRetained
  <2>4. RoleInv'
    BY <1>1, <1>2, <1>4, <2>1 DEF RoleInv
  <2>5. OnceReadyAlwaysServing' /\ OnlyOwnUrlsShown'
    BY <1>1, <1>2, <1>4, <2>1 DEF OnceReadyAlwaysServing, OnlyOwnUrlsShown
  <2> QED BY <2>2, <2>3, <2>4, <2>5
<1> QED BY <1>3, <1>4 DEF InstallRefresh, manager

(* A refresh with the roles of the entry settled, in the rollback or later. *)
LEMMA SettledStep ==
  ASSUME IInv, NEW up \in SUBSET Urls, RollbackRefresh(up) \/ Poll(up) PROVE IInv'
<1> USE ConfigurationOK, AsConfiguredFacts DEF IInv
<1>1. /\ stage \in {"rollback", "loaded"} /\ stage' = "loaded"
      /\ up \subseteq clients /\ AsyncRefresh(up)
      /\ UNCHANGED <<mode, secondary, clients, roles, saved, private>>
      /\ shown' \in {shown, {u \in Urls : addons'[u] # {}} \ private}
  BY DEF RollbackRefresh, Poll, options, manager, Publish
<1>2. AsConfigured' = AsConfigured
  BY <1>1 DEF AsConfigured
<1>3. /\ addons' \in [Urls -> SUBSET Roles] /\ errors' \subseteq Urls
      /\ \A u \in Urls : addons'[u] \in {addons[u], roles[u], {}}
      /\ up = {} => addons' = addons
      /\ up # {} => \A u \in Urls : addons'[u] = IF u \in up THEN roles[u] ELSE {}
  BY <1>1, RefreshLoads DEF TypeOK
<1>4. TypeOK'
  BY <1>1, <1>3 DEF TypeOK
<1>5. StageInv' /\ ManualRetained'
  BY <1>1, <1>2 DEF StageInv, ManualRetained
<1>6. RoleInv'
  BY <1>1, <1>2, <1>3 DEF RoleInv
<1>7. OnceReadyAlwaysServing'
  <2>1. CASE up = {}
    BY <1>1, <1>3, <2>1 DEF OnceReadyAlwaysServing
  <2>2. CASE up # {}
    BY <1>1, <1>3, <2>2 DEF OnceReadyAlwaysServing, TypeOK
  <2> QED BY <2>1, <2>2
<1>8. OnlyOwnUrlsShown'
  <2>1. \A u \in Urls : addons'[u] # {} /\ u \notin private => AsConfigured[u] # {}
    BY <1>1, <1>3 DEF RoleInv
  <2> QED BY <1>1, <1>2, <2>1 DEF OnlyOwnUrlsShown
<1> QED BY <1>4, <1>5, <1>6, <1>7, <1>8

(* Without an account or its add-ons the configured roles stay; a reload     *)
(* starts over.                                                             *)
LEMMA OtherStep ==
  ASSUME IInv, SkipAccount \/ InstallNothing \/ \E m \in Modes, s \in Urls \cup {NoUrl} : Reload(m, s)
  PROVE  IInv'
<1> USE ConfigurationOK DEF IInv
<1>1. CASE SkipAccount
  <2>1. UNCHANGED <<mode, secondary, clients, roles, addons, errors, saved, private, shown>>
        /\ stage = "account" /\ stage' = "loaded" /\ AsConfigured' = AsConfigured
    BY <1>1 DEF SkipAccount, options, manager, loads, AsConfigured
  <2> QED BY <2>1 DEF TypeOK, StageInv, RoleInv, ManualRetained, OnceReadyAlwaysServing,
        OnlyOwnUrlsShown
<1>2. CASE InstallNothing
  <2>1. UNCHANGED <<mode, secondary, clients, roles, addons, errors, private, shown>>
        /\ stage = "account" /\ stage' = "rollback" /\ AsConfigured' = AsConfigured
        /\ saved' = [clients |-> clients, roles |-> roles]
    BY <1>2 DEF InstallNothing, options, manager, loads, AsConfigured
  <2>2. saved' \in [clients : SUBSET Urls, roles : [Urls -> SUBSET Roles]]
    BY <2>1 DEF TypeOK
  <2> QED BY <2>1, <2>2 DEF TypeOK, StageInv, RoleInv, ManualRetained, OnceReadyAlwaysServing,
        OnlyOwnUrlsShown
<1>3. CASE \E m \in Modes, s \in Urls \cup {NoUrl} : Reload(m, s)
  <2>1. PICK m \in Modes, s \in Urls \cup {NoUrl} : Reload(m, s)
    BY <1>3
  <2>2. \A u \in Urls : Manual[u] \subseteq AsConfigured'[u]
    BY DEF AsConfigured
  <2>3. TypeOK'
    BY <2>1 DEF Reload, TypeOK, Configured, NotLoaded, Roles
  <2>4. StageInv' /\ ManualRetained' /\ OnceReadyAlwaysServing' /\ OnlyOwnUrlsShown'
    BY <2>1 DEF Reload, StageInv, ManualRetained, OnceReadyAlwaysServing, OnlyOwnUrlsShown
  <2>5. RoleInv'
    BY <2>1, <2>2 DEF Reload, RoleInv, NotLoaded
  <2> QED BY <2>3, <2>4, <2>5
<1> QED BY <1>1, <1>2, <1>3

(* Every step keeps the inductive invariant.                                *)
LEMMA NextIInv == IInv /\ [Next]_vars => IInv'
<1>1. ASSUME IInv, UNCHANGED vars PROVE IInv'
  BY <1>1 DEF vars, IInv, TypeOK, StageInv, RoleInv, ManualRetained,
     OnceReadyAlwaysServing, OnlyOwnUrlsShown, AsConfigured
<1> QED
  BY <1>1, FirstStep, SecondaryStep, InstallStep, InstallRefreshStep, SettledStep,
     OtherStep DEF Next

(* The inductive invariant holds in every reachable state.                  *)
LEMMA Invariance == Spec => []IInv
BY InitIInv, NextIInv, PTL DEF Spec

(* Every variable keeps its type, and the clients are the URLs with roles.  *)
THEOREM TypeCorrect == Spec => []TypeOK
<1>1. IInv => TypeOK
  BY DEF IInv
<1> QED BY Invariance, <1>1, PTL

(* The Sports roles, and in mode hybrid every manual role, survive whatever *)
(* loads, fails or is rolled back.                                          *)
THEOREM ManualKept == Spec => []ManualRetained
<1>1. IInv => ManualRetained
  BY DEF IInv
<1> QED BY Invariance, <1>1, PTL

(* Without the account's add-ons an entry has exactly the providers its own *)
(* options state.                                                           *)
THEOREM RollbackExact == Spec => []RollbackIsExact
<1>1. IInv => RollbackIsExact
  BY DEF IInv, StageInv, RollbackIsExact
<1> QED BY Invariance, <1>1, PTL

(* An entry that was ready once always has a loaded add-on.                 *)
THEOREM AlwaysServing == Spec => []OnceReadyAlwaysServing
<1>1. IInv => OnceReadyAlwaysServing
  BY DEF IInv
<1> QED BY Invariance, <1>1, PTL

(* Once setup is over, no loaded add-on serves a role taken from it.        *)
THEOREM ServedConfigured == Spec => []ServedAsConfigured
<1>1. IInv => ServedAsConfigured
  BY DEF IInv, RoleInv, ServedAsConfigured
<1> QED BY Invariance, <1>1, PTL

(* Only URLs of the entry's own options are shown as they are.              *)
THEOREM OwnUrlsShown == Spec => []OnlyOwnUrlsShown
<1>1. IInv => OnlyOwnUrlsShown
  BY DEF IInv
<1> QED BY Invariance, <1>1, PTL
=============================================================================
