------------------------------ MODULE Plugins ------------------------------
(***************************************************************************)
(* The installation of one plugin in one scope.  Every operation reads the *)
(* installation and saves it whole, with no comparison in between: what    *)
(* enable does while it waits for the health of the runtime is not         *)
(* protected from what others save.  A request for installation asks the   *)
(* catalog of the marketplace for an approved release, then for the trust  *)
(* in the publisher, then saves.                                           *)
(***************************************************************************)
EXTENDS Naturals

CONSTANTS Clients,
          MaxCalls,    \* the rate limit of invocations
          People, Releases, None, MaxToken   \* of the marketplace

State == {"absent", "installed", "enabled", "disabled", "revoked", "uninstalled"}

VARIABLES
  plugin,    \* the state of the stored installation
  client,    \* per client: the operation under way
  recent,    \* invocations within the last minute
  pub, rel, asking, inspecting,   \* the marketplace
  began      \* history: whose publisher was suspended when the request arrived

M == INSTANCE Marketplace

installed == <<plugin, client, recent>>
catalog == <<pub, rel, asking, inspecting>>
pvars == <<plugin, client, recent, pub, rel, asking, inspecting, began>>

Doing(c, op) == client' = [client EXCEPT ![c] = op]

NotInstalled ==
  /\ plugin = "absent"
  /\ client = [c \in Clients |-> "idle"]
  /\ recent = 0

\* In which states an operation goes on, and the state it saves.
Source(op) == CASE op = "install"   -> {"absent", "uninstalled"}
                [] op = "enable"    -> {"installed", "disabled"}
                [] op = "disable"   -> {"enabled"}
                [] op = "revoke"    -> {"installed", "enabled", "disabled"}
                [] op = "uninstall" -> {"installed", "disabled", "revoked"}
Target(op) == CASE op = "install"   -> "installed"
                [] op = "enable"    -> "enabled"
                [] op = "disable"   -> "disabled"
                [] op = "revoke"    -> "revoked"
                [] op = "uninstall" -> "uninstalled"
Operations == {"enable", "disable", "revoke", "uninstall"}

\* install, once the trust in the publisher has been resolved
Verify(c, trusted) ==
  /\ client[c] = "verify" /\ trusted
  /\ Doing(c, "install")
  /\ UNCHANGED <<plugin, recent>>

Refuse(c) ==
  /\ client[c] \in {"verify", "install", "enable"}
  /\ Doing(c, "idle")
  /\ UNCHANGED <<plugin, recent>>

\* #verifyManifest is followed by the read of the previous installation and the
\* save: other processes may save in between.
ReadPrevious(c) ==
  /\ client[c] = "install" /\ plugin \in Source("install")
  /\ Doing(c, "installing")
  /\ UNCHANGED <<plugin, recent>>

SaveInstalled(c) ==
  /\ client[c] = "installing"
  /\ plugin' = Target("install")
  /\ Doing(c, "idle")
  /\ UNCHANGED recent

\* enable, disable, revoke and uninstall up to the read of the installation;
\* enable then waits for the health of the runtime, which may refuse it.
Read(c, op) ==
  /\ client[c] = "idle" /\ plugin \in Source(op)
  /\ Doing(c, op)
  /\ UNCHANGED <<plugin, recent>>

\* #transition
SaveTransition(c) ==
  /\ client[c] \in Operations
  /\ plugin' = Target(client[c])
  /\ Doing(c, "idle")
  /\ UNCHANGED recent

\* invoke: an enabled plugin, within the rate; the call may time out.
Invoke(c) ==
  /\ client[c] = "idle" /\ plugin = "enabled" /\ recent < MaxCalls
  /\ recent' = recent + 1
  /\ Doing(c, "invoke")
  /\ UNCHANGED plugin

Answer(c) ==
  /\ client[c] = "invoke"
  /\ Doing(c, "idle")
  /\ UNCHANGED <<plugin, recent>>

MinutePasses ==
  /\ recent > 0
  /\ recent' = 0
  /\ UNCHANGED <<plugin, client>>

Installation ==
  \/ \E c \in Clients : \/ Refuse(c) \/ ReadPrevious(c) \/ SaveInstalled(c)
                        \/ SaveTransition(c) \/ Invoke(c) \/ Answer(c)
                        \/ \E op \in Operations : Read(c, op)
  \/ MinutePasses

-----------------------------------------------------------------------------
(* With the catalog.                                                       *)

Init == NotInstalled /\ M!Init /\ began = [c \in Clients |-> FALSE]

\* The routes: through the marketplace with an eligible release, or directly
\* with a manifest, whose publisher is resolved in the catalog all the same.
RequestInstall(c) ==
  /\ client[c] = "idle"
  /\ Doing(c, "verify")
  /\ began' = [began EXCEPT ![c] = pub.state = "suspended"]
  /\ UNCHANGED <<catalog, plugin, recent>>

InstallApproved(c) == (\E r \in Releases : M!Eligible(r)) /\ RequestInstall(c)

InstallManifest(c) == RequestInstall(c)

\* A manifest signed with an active key of the configuration: the catalog is not
\* asked; with a revoked one it is refused at once.
InstallConfigured(c) ==
  /\ client[c] = "idle"
  /\ Doing(c, "install")
  /\ began' = [began EXCEPT ![c] = FALSE]
  /\ UNCHANGED <<catalog, plugin, recent>>

ResolveTrust(c) ==
  /\ Verify(c, M!Trusted)
  /\ UNCHANGED <<catalog, began>>

Next ==
  \/ M!Next /\ UNCHANGED <<installed, began>>
  \/ Installation /\ UNCHANGED <<catalog, began>>
  \/ \E c \in Clients : \/ InstallApproved(c) \/ InstallManifest(c)
                        \/ InstallConfigured(c) \/ ResolveTrust(c)

-----------------------------------------------------------------------------
TypeOK ==
  /\ plugin \in State
  /\ client \in [Clients -> Operations \cup
                   {"idle", "verify", "install", "installing", "invoke"}]
  /\ recent \in 0..MaxCalls
  /\ began \in [Clients -> BOOLEAN]
  /\ M!TypeOK

\* The suspension of a publisher removes its trust from every release: no
\* request that arrives after it installs a plugin, while one that was past
\* the check may still finish.  Keys of the configuration are beyond the catalog.
NoneInstalledSince ==
  \A c \in Clients : client[c] = "installing" /\ client'[c] = "idle" => ~began[c]
SuspensionBlocks == [][NoneInstalledSince]_pvars

TrustIsEarned == M!TrustIsEarned

\* docs/adr/0016-evidence-bound-marketplace.md:32: what was withdrawn stays withdrawn.
WithdrawnStays == [][M!StaysWithdrawn]_pvars

\* docs/plugins.md:50 says that a revocation cannot be reversed by enablement:
\* from "revoked" a plugin goes nowhere but to "uninstalled".
StaysRevoked == plugin = "revoked" => plugin' \in {"revoked", "uninstalled"}
RevocationStands == [][StaysRevoked]_pvars
=============================================================================
