----------------------------- MODULE FrpWrapper -----------------------------
(***************************************************************************)
(* Starting and stopping the embedded FRP client (frp/frpwrapper.go).  The *)
(* server has the same code with frps for frpc.  A run is one call of      *)
(* startFrpc, with the goroutine it starts; the service that a run creates *)
(* is named by the run.  The service itself is external: its Run returns   *)
(* when its context is cancelled or it is closed, or of its own accord.    *)
(***************************************************************************)
EXTENDS Naturals, FiniteSets

CONSTANTS FrpRun,     \* calls of startFrpc
          FrpStopper, \* threads that call stopFrpc
          NilRun

ASSUME FrpAssumption == NilRun \notin FrpRun

VARIABLES workDir,     \* whether init has been called
          frpcCancel,  \* the run that it cancels
          frpcRunning,
          frpcSvr,     \* the run whose service it is
          frpcWG,
          runAt, cancelled, svcClosed,  \* of each run
          stopAt,                       \* of each stopper
          overlapped   \* history: runs that began before a stopped one had ended, and
                       \* those that began next to such a run

frpVars == <<workDir, frpcCancel, frpcRunning, frpcSvr, frpcWG, runAt, cancelled, svcClosed,
             stopAt, overlapped>>

Alive(r) == runAt[r] \in {"started", "running", "cleanup"}

(* Java_frpwrapper_Frpwrapper_init *)
InitWrapper ==
  /\ ~ workDir /\ workDir' = TRUE
  /\ UNCHANGED <<frpcCancel, frpcRunning, frpcSvr, frpcWG, runAt, cancelled, svcClosed,
                 stopAt, overlapped>>

(* StartFrpc, up to the first Unlock: refused while a cancel function is set. *)
AlreadyRunning_Svr == frpcSvr # NilRun
AlreadyRunning == frpcCancel # NilRun

StartFrpc(r) ==
  /\ runAt[r] = "new"
  /\ IF AlreadyRunning
     THEN /\ runAt' = [runAt EXCEPT ![r] = "refused"]
          /\ UNCHANGED <<frpcCancel, frpcRunning, frpcWG, overlapped>>
     ELSE /\ runAt' = [runAt EXCEPT ![r] = "started"]
          /\ frpcCancel' = r /\ frpcRunning' = TRUE /\ frpcWG' = frpcWG + 1
          /\ overlapped' = IF \E q \in FrpRun : Alive(q) /\ (cancelled[q] \/ q \in overlapped)
                           THEN overlapped \cup {r} ELSE overlapped
  /\ UNCHANGED <<workDir, frpcSvr, cancelled, svcClosed, stopAt>>

(* The configuration is written, read and checked, and the service created. *)
ConfigFails(r) ==
  /\ runAt[r] = "started"
  /\ runAt' = [runAt EXCEPT ![r] = "cleanup"]
  /\ UNCHANGED <<workDir, frpcCancel, frpcRunning, frpcSvr, frpcWG, cancelled, svcClosed,
                 stopAt, overlapped>>

ServiceStarts(r) ==
  /\ runAt[r] = "started" /\ workDir
  /\ runAt' = [runAt EXCEPT ![r] = "running"]
  /\ frpcSvr' = r
  /\ UNCHANGED <<workDir, frpcCancel, frpcRunning, frpcWG, cancelled, svcClosed, stopAt,
                 overlapped>>

ServiceRunEnds(r) ==
  /\ runAt[r] = "running"
  /\ runAt' = [runAt EXCEPT ![r] = "cleanup"]
  /\ UNCHANGED <<workDir, frpcCancel, frpcRunning, frpcSvr, frpcWG, cancelled, svcClosed,
                 stopAt, overlapped>>

(* The deferred function clears the variables, whichever run they are of. *)
Clears(r) == frpcCancel' = NilRun /\ frpcSvr' = NilRun /\ frpcRunning' = FALSE

StartFrpcReturns(r) ==
  /\ runAt[r] = "cleanup"
  /\ runAt' = [runAt EXCEPT ![r] = "unlocked"]
  /\ Clears(r)
  /\ UNCHANGED <<workDir, frpcWG, cancelled, svcClosed, stopAt, overlapped>>

WGDone(r) ==
  /\ runAt[r] = "unlocked"
  /\ runAt' = [runAt EXCEPT ![r] = "done"]
  /\ frpcWG' = frpcWG - 1
  /\ UNCHANGED <<workDir, frpcCancel, frpcRunning, frpcSvr, cancelled, svcClosed, stopAt,
                 overlapped>>

(* stopFrpc *)
Cancels ==
  /\ frpcCancel' = NilRun
  /\ cancelled' = [r \in FrpRun |-> cancelled[r] \/ r = frpcCancel]

stopFrpc(s) ==
  /\ stopAt[s] = "idle"
  /\ Cancels
  /\ svcClosed' = [r \in FrpRun |-> svcClosed[r] \/ r = frpcSvr]
  /\ stopAt' = [stopAt EXCEPT ![s] = "waiting"]
  /\ UNCHANGED <<workDir, frpcRunning, frpcSvr, frpcWG, runAt, overlapped>>

stopReturns(s) ==
  /\ stopAt[s] = "waiting" /\ frpcWG = 0
  /\ stopAt' = [stopAt EXCEPT ![s] = "idle"]
  /\ UNCHANGED <<workDir, frpcCancel, frpcRunning, frpcSvr, frpcWG, runAt, cancelled,
                 svcClosed, overlapped>>

-----------------------------------------------------------------------------
FrpInit ==
  /\ workDir = FALSE /\ frpcCancel = NilRun /\ frpcRunning = FALSE /\ frpcSvr = NilRun
  /\ frpcWG = 0
  /\ runAt = [r \in FrpRun |-> "new"]
  /\ cancelled = [r \in FrpRun |-> FALSE] /\ svcClosed = [r \in FrpRun |-> FALSE]
  /\ stopAt = [s \in FrpStopper |-> "idle"]
  /\ overlapped = {}

FrpNext ==
  \/ InitWrapper
  \/ \E r \in FrpRun : \/ StartFrpc(r) \/ ConfigFails(r) \/ ServiceStarts(r)
                       \/ ServiceRunEnds(r) \/ StartFrpcReturns(r) \/ WGDone(r)
  \/ \E s \in FrpStopper : stopFrpc(s) \/ stopReturns(s)

FrpSpec == FrpInit /\ [][FrpNext]_frpVars

-----------------------------------------------------------------------------
FrpTypeOK ==
  /\ frpcCancel \in FrpRun \cup {NilRun} /\ frpcSvr \in FrpRun \cup {NilRun}
  /\ frpcWG = Cardinality({r \in FrpRun : Alive(r) \/ runAt[r] = "unlocked"})
  /\ stopAt \in [FrpStopper -> {"idle", "waiting"}]

(* As long as no run begins between a stopFrpc and the end of the run it stopped, there
   is at most one run, isFrpcRunning tells whether there is, and its cancel function is
   at hand: StartFrpc's deferred function never clears the variables of another run. *)
FrpReachable ==
  overlapped = {} =>
    /\ Cardinality({r \in FrpRun : Alive(r)}) <= 1
    /\ \A r \in FrpRun : Alive(r) => frpcRunning /\ (cancelled[r] \/ frpcCancel = r)
    /\ frpcRunning => \E r \in FrpRun : Alive(r)
=============================================================================
