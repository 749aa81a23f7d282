------------------------ MODULE MCControllerServices ------------------------
(***************************************************************************)
(* Model checking of the controller's own services: the SSH identity with  *)
(* the enrollment of hosts, the certificate inventory, and the telemetry   *)
(* collector's host and cluster loops.  They share no state here; a        *)
(* behaviour follows one of them: of the identity either one row of each   *)
(* machine of which few are disturbed, or several rows of one machine; of  *)
(* the certificates the policies, the previews, or refreshes beside either *)
(* files that change or assignments and clusters that come and go.         *)
(***************************************************************************)
EXTENDS ControllerIdentity, CertificateLifecycle, HostTelemetry, ClusterTelemetry, TLC

CONSTANTS x1, x2, k1, k2, a1, a2

VARIABLE focus

Sym == Permutations(Machines) \cup Permutations(SshKeys)

-----------------------------------------------------------------------------
(* A leaf of each of two issuers: one for all hosts that is not valid yet, *)
(* one that expires and names only h1.                                     *)

Leaf(s, i, u) ==
  [serial |-> s, issuer |-> i, names |-> Hosts, usage |-> "both", from |-> 0, until |-> u]
MCCerts == {[Leaf(11, 1, 1) EXCEPT !.from = 1],
            [Leaf(12, 2, 0) EXCEPT !.names = {"h1"}, !.usage = "server"]}
MCCACerts == {Leaf(1, 1, 1), Leaf(2, 2, 1)}
MCAssigned == <<[role |-> "master", host |-> "h1"], [role |-> "kibana", host |-> "h2"]>>

-----------------------------------------------------------------------------

MCFirstRoster == [id \in RowIds |-> a1]

-----------------------------------------------------------------------------

controllerVars == <<identityVars, certificateVars>>
collectorVars == <<telemetryVars, clusterTelemetryVars>>

ServicesInit ==
  /\ focus \in {"identity", "one machine", "policies", "previews", "files", "assets", "hosts",
               "clusters"}
  /\ IdentityInit /\ CertificateInit /\ HostTelemetryInit /\ ClusterTelemetryInit
  \* the CA varies at first only where it is looked at; a machine may lose its
  \* marker later
  /\ focus \in {"policies", "previews", "files"} \/ disk[CA].serial = 1
  /\ \A a \in Addresses : remotes[a] = "ready"

MaxDisturbed == 1
IdentityFocus ==
  \/ /\ focus = "identity" /\ IdentityNext
     /\ Cardinality(disturbed') <= MaxDisturbed
     /\ \A x \in Machines : Cardinality(RowsOf(x)') <= 1
  \/ /\ focus = "one machine" /\ IdentityNext
     /\ \E x \in Machines :
          \A y \in Machines \ {x} : RowsOf(y)' = {} /\ authorized'[y] = {}

CertificateFocus ==
  \/ focus = "policies" /\ (PolicyNext \/ ClusterNext \/ RemoveNext)
  \/ focus = "previews" /\ (PreviewNext \/ ClusterNext \/ RemoveNext)
  \/ focus = "files" /\ (FileNext \/ RefreshNext)
  \/ focus = "assets" /\ (RemoveNext \/ AddNext \/ ClusterNext \/ RefreshNext \/ ListAssets)

ServicesNext ==
  /\ UNCHANGED focus
  /\ \/ IdentityFocus /\ UNCHANGED <<certificateVars, collectorVars>>
     \/ CertificateFocus /\ UNCHANGED <<identityVars, collectorVars>>
     \/ focus = "hosts" /\ HostTelemetryNext /\ UNCHANGED <<controllerVars, clusterTelemetryVars>>
     \/ focus = "clusters" /\ ClusterTelemetryNext /\ UNCHANGED <<controllerVars, telemetryVars>>

ServicesSpec == ServicesInit /\ [][ServicesNext]_<<focus, controllerVars, collectorVars>>

=============================================================================
