----------------------------- MODULE Providers ------------------------------
(***************************************************************************)
(* The set of add-ons of one config entry: StremioAddonManager, its        *)
(* refreshes, and the setup that extends it by the secondary stream        *)
(* provider and by the add-ons of a linked Stremio account, or rolls the   *)
(* account back.                                                           *)
(*                                                                         *)
(* Setup runs from one refresh to the next; nobody else refreshes before   *)
(* it ends, since services want a loaded entry and the coordinator polls   *)
(* only for an entity.  Which manifests answer is different each time.     *)
(***************************************************************************)
EXTENDS Integers, FiniteSets

CONSTANTS
  Urls,     \* manifest URLs
  Manual,   \* the roles each URL has in the configuration of the entry
  Account,  \* the roles the account's manifest of each URL has
  NoUrl     \* no secondary provider, or one with an invalid URL

MainRoles == {"catalog", "stream", "subtitle"}
Roles     == MainRoles \cup {"sports"}
Modes     == {"off", "manual", "account", "hybrid"}

ASSUME ConfigurationOK ==
  /\ Manual \in [Urls -> SUBSET Roles]
  /\ Account \in [Urls -> SUBSET MainRoles]
  /\ NoUrl \notin Urls

VARIABLES
  mode,       \* account_enabled and account_provider_mode
  secondary,  \* the secondary stream manifest
  stage,      \* where setup is, or "loaded"
  clients,    \* URLs in manager._clients
  roles,      \* manager._roles; a URL without an entry has none
  addons,     \* manager.addons: the loaded URLs with their frozen roles
  errors,     \* URLs in manager.errors
  saved,      \* previous_clients and previous_roles
  private,    \* private_urls
  shown       \* URLs in the coordinator's data, unredacted

vars == <<mode, secondary, stage, clients, roles, addons, errors, saved, private, shown>>

options == <<mode, secondary>>
manager == <<clients, roles>>
loads   == <<addons, errors>>

(* A loaded add-on has roles: TypeOK says that every client has.            *)
NotLoaded == [u \in Urls |-> {}]

Configured == {u \in Urls : Manual[u] # {}}

(* StremioAddonManager.__init__, from the entry's lists of URLs.            *)
NewManager ==
  /\ clients = Configured
  /\ roles = Manual
  /\ addons = NotLoaded
  /\ errors = {}

Init ==
  /\ mode \in Modes
  /\ secondary \in Urls \cup {NoUrl}
  /\ stage = "first"
  /\ NewManager
  /\ saved = [clients |-> {}, roles |-> NotLoaded]
  /\ private = {}
  /\ shown = {}

-----------------------------------------------------------------------------
(* Slips: the loaded add-ons are replaced before it is known that there are *)
(* any; those that do not answer stay as they were loaded before.           *)
AsyncRefreshAnyway(up) ==
  /\ addons' = [u \in Urls |-> IF u \in up THEN roles'[u] ELSE {}]
  /\ errors' = clients' \ up

AsyncRefreshKeeping(up) ==
  IF up = {} THEN UNCHANGED loads
  ELSE /\ addons' = [u \in Urls |-> IF u \in up THEN roles'[u] ELSE addons[u]]
       /\ errors' = clients' \ up

(* async_refresh with the answers of the manifests in up.  If there are     *)
(* none it raises and what was loaded stays.                                *)
AsyncRefresh(up) ==
  IF up = {} THEN UNCHANGED loads
  ELSE /\ addons' = [u \in Urls |-> IF u \in up THEN roles'[u] ELSE {}]
       /\ errors' = clients' \ up

(* The coordinator's data, with the redaction of account add-ons.           *)
Publish == shown' = {u \in Urls : addons'[u] # {}} \ private

(* The coordinator's first refresh.  Without a stream server or a manifest  *)
(* the entry is not ready, and is set up again later with a new manager.    *)
FirstRefresh(up) ==
  /\ stage = "first"
  /\ up \subseteq clients
  /\ UNCHANGED manager
  /\ AsyncRefresh(up)
  /\ IF up = {} THEN UNCHANGED <<stage, shown>>
                ELSE stage' = "secondary" /\ Publish
  /\ UNCHANGED <<options, saved, private>>

(* install_secondary_stream_provider.                                       *)
InstallSecondary(up) ==
  /\ stage = "secondary"
  /\ stage' = "account"
  /\ \/ /\ secondary = NoUrl
        /\ UNCHANGED <<manager, loads>>
     \/ /\ secondary # NoUrl
        /\ clients' = clients \cup {secondary}
        /\ roles' = [roles EXCEPT ![secondary] = @ \cup {"stream"}]
        /\ up \subseteq clients'
        /\ AsyncRefresh(up)
  /\ UNCHANGED <<options, saved, private, shown>>

(* async_install_account_bridge, when there is nothing to install: no       *)
(* account, no way to reach it, or a mode that only uses its library; or    *)
(* install_account_providers without a descriptor.                          *)
SkipAccount ==
  /\ stage = "account"
  /\ stage' = "loaded"
  /\ UNCHANGED <<options, manager, loads, saved, private, shown>>

(* _remove_manual_main_roles: what each URL keeps, and who keeps a client.  *)
WithoutMain(r) == [u \in Urls |-> r[u] \ MainRoles]

(* A slip: nothing is kept to go back to.                                  *)
InstallAccountUnsaved(found) ==
  LET base == IF mode = "account" THEN WithoutMain(roles) ELSE roles
      kept == IF mode = "account" THEN {u \in clients : base[u] # {}} ELSE clients
  IN
  /\ stage = "account"
  /\ mode \in {"account", "hybrid"}
  /\ found # {}
  /\ clients' = kept \cup found
  /\ roles' = [u \in Urls |-> base[u] \cup (IF u \in found THEN Account[u] ELSE {})]
  /\ saved' = [clients |-> clients, roles |-> roles']
  /\ private' = found
  /\ stage' = "install"
  /\ UNCHANGED <<options, loads, shown>>

(* install_account_providers, up to its refresh: the account's add-ons,     *)
(* those with a usable URL, join the manual ones or, in mode account, take  *)
(* their main roles.                                                        *)
InstallAccount(found) ==
  LET base == IF mode = "account" THEN WithoutMain(roles) ELSE roles
      kept == IF mode = "account" THEN {u \in clients : base[u] # {}} ELSE clients
  IN
  /\ stage = "account"
  /\ mode \in {"account", "hybrid"}
  /\ found # {}
  /\ found \subseteq {u \in Urls : Account[u] # {}}
  /\ saved' = [clients |-> clients, roles |-> roles]
  /\ clients' = kept \cup found
  /\ roles' = [u \in Urls |-> base[u] \cup (IF u \in found THEN Account[u] ELSE {})]
  /\ private' = found
  /\ stage' = "install"
  /\ UNCHANGED <<options, loads, shown>>

(* None of the descriptors has a usable URL: what was changed in place is   *)
(* put back at once, and refreshed.                                         *)
InstallNothing ==
  /\ stage = "account"
  /\ mode \in {"account", "hybrid"}
  /\ saved' = [clients |-> clients, roles |-> roles]
  /\ stage' = "rollback"
  /\ UNCHANGED <<options, manager, loads, private, shown>>

(* Its refresh: a single manifest of any kind is a success; with none the   *)
(* previous providers are restored.                                         *)
InstallRefresh(up) ==
  /\ stage = "install"
  /\ up \subseteq clients
  /\ \/ /\ up # {}
        /\ stage' = "loaded"
        /\ UNCHANGED <<manager, private>>
     \/ /\ up = {}
        /\ stage' = "rollback"
        /\ clients' = saved.clients
        /\ roles' = saved.roles
        /\ private' = {}
  /\ AsyncRefresh(up)
  /\ UNCHANGED <<options, saved, shown>>

(* The refresh after the restoration; its failure is ignored.               *)
RollbackRefresh(up) ==
  /\ stage = "rollback"
  /\ up \subseteq clients
  /\ stage' = "loaded"
  /\ UNCHANGED manager
  /\ AsyncRefresh(up)
  /\ UNCHANGED <<options, saved, private, shown>>

(* A later poll of the coordinator, which asks the stream server first.     *)
Poll(up) ==
  /\ stage = "loaded"
  /\ up \subseteq clients
  /\ UNCHANGED manager
  /\ AsyncRefresh(up)
  /\ IF up = {} THEN UNCHANGED shown ELSE Publish
  /\ UNCHANGED <<options, stage, saved, private>>

(* The entry is unloaded (its options changed, perhaps) and set up again    *)
(* with a new manager; the account's runtime is forgotten.                  *)
Reload(m, s) ==
  /\ stage = "loaded"
  /\ stage' = "first"
  /\ mode' = m
  /\ secondary' = s
  /\ clients' = Configured
  /\ roles' = Manual
  /\ addons' = NotLoaded
  /\ errors' = {}
  /\ private' = {}
  /\ shown' = {}
  /\ UNCHANGED saved

Next ==
  \/ \E up \in SUBSET Urls :
       \/ FirstRefresh(up) \/ InstallSecondary(up) \/ InstallRefresh(up)
       \/ RollbackRefresh(up) \/ Poll(up)
  \/ SkipAccount \/ InstallNothing
  \/ \E found \in SUBSET Urls : InstallAccount(found)
  \/ \E m \in Modes, s \in Urls \cup {NoUrl} : Reload(m, s)

Spec == Init /\ [][Next]_vars

-----------------------------------------------------------------------------
(* The roles as the entry's options state them.                             *)
AsConfigured ==
  [u \in Urls |-> Manual[u] \cup (IF u = secondary THEN {"stream"} ELSE {})]

(* Among the types: the clients are exactly the URLs with a role.           *)
TypeOK ==
  /\ mode \in Modes
  /\ secondary \in Urls \cup {NoUrl}
  /\ stage \in {"first", "secondary", "account", "install", "rollback", "loaded"}
  /\ roles \in [Urls -> SUBSET Roles]
  /\ clients = {u \in Urls : roles[u] # {}}
  /\ addons \in [Urls -> SUBSET Roles]
  /\ errors \subseteq Urls
  /\ saved \in [clients : SUBSET Urls, roles : [Urls -> SUBSET Roles]]
  /\ private \subseteq Urls
  /\ shown \subseteq Urls

(* docs/stremio-account.md, of mode account: "The separately configured     *)
(* Sports profile is retained"; and in mode hybrid every manual role is,    *)
(* whatever loads, fails or is rolled back.                                 *)
ManualRetained ==
  \A u \in Urls :
    /\ Manual[u] \cap {"sports"} \subseteq roles[u]
    /\ mode # "account" => Manual[u] \subseteq roles[u]

(* An entry that was set up without the account's add-ons, because there    *)
(* are none or they were rolled back, has the providers it would have       *)
(* without an account: the rollback restores clients and roles exactly.     *)
RollbackIsExact ==
  stage = "loaded" /\ private = {} => roles = AsConfigured

(* A failing refresh never leaves an entry that was ready without add-ons.  *)
OnceReadyAlwaysServing == stage # "first" => \E u \in Urls : addons[u] # {}

(* When setup is over no loaded add-on serves a role that was taken from    *)
(* it, whichever refreshes of the setup failed.                             *)
ServedAsConfigured ==
  stage = "loaded" => \A u \in Urls : addons[u] \subseteq roles[u]

(* docs/stremio-account.md, "coordinator diagnostics use non-secret         *)
(* identifiers": only URLs of the entry's own options are shown as they are.*)
OnlyOwnUrlsShown ==
  shown \subseteq {u \in Urls : AsConfigured[u] # {}}

(* docs/stremio-account.md, "If account providers fail to load, the bridge  *)
(* restores its previous manual provider set": when none of them answered,  *)
(* no manual role is missing.  Violated in mode account: a sports manifest  *)
(* that answers makes the refresh, and with it the installation, a success. *)
AccountFailureRestores ==
  [][stage = "install" /\ stage' = "loaded" /\ (\A u \in private : addons'[u] = {})
       => \A u \in Urls : saved.roles[u] \subseteq roles'[u]]_vars
=============================================================================
