------------------------------- MODULE Errors -------------------------------
(***************************************************************************)
(* The errors of all components: internal/zberr.                           *)
(*                                                                         *)
(* An error is its chain of causes, outermost first, as errors.Unwrap goes *)
(* through it; the empty chain is nil.  Messages, owners and causes that   *)
(* are not zberr.Errors are left out.                                      *)
(***************************************************************************)
EXTENDS Sequences, Naturals

\* declarations, by layer.  PublicationDegraded is a status, not an error.
Declared ==
    [cli                   |-> {"InvalidInvocation", "StartFailed", "UpFailed", "Critical"},
     daemon_ipc            |-> {"SocketBindFailed", "HealthCheckFailed", "ProtocolDecodeFailed",
                                "DispatchFailed", "Critical"},
     control_plane         |-> {"BootFailed", "HostClaimConflict", "ListenerClaimConflict",
                                "RouteNamespaceClaimConflict", "LeaseRejected",
                                "PublicationRejected", "StaleTokenRejected", "RecoveryConflict",
                                "RouteRuntimeUnavailable", "StoreUnavailable", "CorruptState",
                                "Critical"},
     control_plane_store   |-> {"OpenFailed", "LockHeld", "ReadFailed", "WriteFailed",
                                "CorruptState", "AtomicCommitFailed", "Critical"},
     control_plane_client  |-> {"ConnectionFailed", "Critical"},
     stack_orchestrator    |-> {"ConfigInvalid", "ClaimRejected", "PreflightRejected",
                                "DependencyStartFailed", "ReadinessFailed",
                                "GenerationCommitFailed", "CleanupFailed", "Critical"},
     route_runtime         |-> {"BootstrapFailed", "ReloadFailed", "ApplyRejected",
                                "UnsupportedTransport", "Critical"},
     compose_backend       |-> {"ModelInvalid", "IsolationRejected", "LifecycleFailed", "Critical"},
     process_launcher      |-> {"SpawnFailed", "ExitedEarly", "ShutdownFailed", "Critical"},
     readiness_probe       |-> {"ProbeInvalid", "Timeout", "ProbeFailed", "Critical"},
     socket_bridge         |-> {"BridgeInvalid", "BridgeStartFailed", "BridgeHealthFailed",
                                "BridgeStopFailed", "Critical"},
     auxiliary_publication |-> {"SharedDomainPublishFailed", "MetadataRenderFailed",
                                "MetadataCacheFailed", "Critical"},
     fabric_core           |-> {"ConfigInvalid", "IdentityInvalid", "NamespaceInvalid",
                                "EndpointPlanInvalid", "LifecycleInvalid",
                                "TemplateRenderInvalid", "Critical"}]

Nil == << >>

\* New without or with WithCause.
New(layer, code, cause) == <<[layer |-> layer, code |-> code, origin |-> << >>]>> \o cause

\* An error nobody expected: it names the layers it came through.
Critical(layer, cause) ==
    <<[layer  |-> layer, code |-> "Critical",
       origin |-> <<layer>> \o (IF cause = Nil THEN << >> ELSE cause[1].origin)]>> \o cause

Is(err, layer, code) == \E i \in 1..Len(err) : err[i].layer = layer /\ err[i].code = code

\* Lookup and Validate, for one error of the chain.  No error of the code has
\* a phase, so the cli errors that require one are never valid.
WellFormed(e) ==
    /\ e.layer \in DOMAIN Declared
    /\ e.code \in Declared[e.layer]
    /\ ~(e.layer = "cli" /\ e.code \in {"StartFailed", "UpFailed"})
    /\ e.code = "Critical" => e.origin # << >>
=============================================================================
