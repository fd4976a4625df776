----------------------------- MODULE Lifecycle -----------------------------
(***************************************************************************)
(* main.go: the mount, the signal goroutine and the end of the process,    *)
(* around one open writable file.                                          *)
(*                                                                         *)
(* On SIGINT or SIGTERM a goroutine calls server.Unmount, which the kernel *)
(* refuses while a file of the mount is open, and then os.Exit, whatever   *)
(* Unmount has returned.  main returns when server.Wait does: after an     *)
(* unmount, be it by the goroutine or by umount(8).  A process that ends   *)
(* leaves the mount, if it is still there, without a server: the kernel    *)
(* ends each request in flight and each later one with an error, but an    *)
(* API call that has been sent may still be applied.                       *)
(*                                                                         *)
(* The steps of WritableFile are those of the handle while the process is  *)
(* up; its processes are the holders of the descriptor.                    *)
(***************************************************************************)
EXTENDS WritableFile

VARIABLES process,     \* of hcloud-fs: "up" or "exited"
          mount,       \* "attached" or "detached" (external)
          signal,      \* the signal goroutine: "waiting", "unmounting" or "exiting"
          open,        \* somebody holds the descriptor (external)
          closed,      \* the last close since the last Write or truncation: "no", "ok" or "error"
          aborted      \* the processes whose requests the kernel has ended (external)

mainVars == <<process, mount, signal>>
lifeVars == <<mainVars, open, closed, aborted>>
allVars == <<vars, lifeVars>>

LifecycleInit ==
  /\ Init
  /\ process = "up"
  /\ mount = "attached"
  /\ signal = "waiting"
  /\ open = TRUE
  /\ closed = "no"
  /\ aborted = {}

\* A request of p has returned, or the kernel has ended it.
Returned(p) == pc[p] = "idle" \/ p \in aborted

-----------------------------------------------------------------------------
(* The handle, while it is open and served *)

Served == open /\ process = "up" /\ UNCHANGED <<mainVars, open, aborted>>

\* Requests begin.
BeginWrite(p) == Served /\ WriteBegins(p) /\ closed' = "no"
Truncate(p) == Served /\ Setattr(p) /\ closed' = "no"
BeginFlush(p) == Served /\ FlushDirty(p) /\ UNCHANGED closed

\* What a close that begins or returns tells its caller.
CloseTells(p) ==
  /\ Served
  /\ \/ (FlushClean(p) \/ FlushClears(p)) /\ closed' = "ok"
     \/ WriteFnErr(p) /\ closed' = "error"

\* Requests go on.
ServeWrite(p) ==
  /\ Served
  /\ \/ WriteCopied(p) /\ UNCHANGED closed
     \/ WriteMarks(p) /\ closed' = "no"
ServeFlush(p) ==
  \/ Served /\ (Snapshot(p) \/ ApiApplies(p) \/ WriteFnOK(p)) /\ UNCHANGED closed
  \/ pc[p] # "idle" /\ CloseTells(p)

\* The last descriptor is closed: each close has sent a FLUSH before.
Release ==
  /\ open
  /\ closed # "no"
  /\ \A p \in Procs : Returned(p)
  /\ open' = FALSE
  /\ UNCHANGED <<vars, mainVars, closed, aborted>>

-----------------------------------------------------------------------------
(* The process *)

Signal ==
  /\ process = "up"
  /\ signal = "waiting"
  /\ signal' = "unmounting"
  /\ UNCHANGED <<vars, process, mount, open, closed, aborted>>

\* server.Unmount returns, and its error, as for a mount that a shell stands
\* in, is ignored.
UnmountReturns(left) ==
  /\ process = "up"
  /\ signal = "unmounting"
  /\ signal' = "exiting"
  /\ mount' = left
  /\ UNCHANGED <<vars, process, open, closed, aborted>>

UnmountLazily == UnmountReturns("detached")
UnmountWhenFree == ~open /\ UnmountReturns("detached")
Unmount ==
  \/ UnmountReturns(mount)
  \/ ~open /\ UnmountReturns("detached")

\* umount(8)
Umount ==
  /\ ~open
  /\ mount = "attached"
  /\ mount' = "detached"
  /\ UNCHANGED <<vars, process, signal, open, closed, aborted>>

Stop ==
  /\ process = "up"
  /\ process' = "exited"
  /\ UNCHANGED <<vars, mount, signal, open, closed, aborted>>

\* os.Exit(0) in the signal goroutine; main returns after server.Wait; or the
\* process is killed.
Exit == signal = "exiting" /\ Stop
WaitReturns == mount = "detached" /\ Stop
Kill == Stop

-----------------------------------------------------------------------------
(* After the end of the process *)

\* The kernel ends a request: its caller is told an error.
Abort(p) ==
  /\ process = "exited"
  /\ open
  /\ p \notin aborted
  /\ closed' = "error"
  /\ aborted' = aborted \cup {p}
  /\ UNCHANGED <<vars, mainVars, open>>

\* The API applies what it was sent before.
ApiAppliesLate(p) ==
  /\ process = "exited"
  /\ ApiApplies(p)
  /\ UNCHANGED lifeVars

LifecycleNext ==
  \/ Release \/ Signal \/ Unmount \/ Umount \/ Exit \/ WaitReturns \/ Kill
  \/ \E p \in Procs :
       \/ BeginWrite(p) \/ Truncate(p) \/ BeginFlush(p) \/ CloseTells(p)
       \/ ServeWrite(p) \/ ServeFlush(p) \/ Abort(p) \/ ApiAppliesLate(p)

LifecycleSpec == LifecycleInit /\ [][LifecycleNext]_allVars

\* A goroutine that can run is run, outside Hung every API call ends, and the
\* kernel ends what nobody serves.
Fairness ==
  /\ WF_allVars(Unmount) /\ WF_allVars(Exit)
  /\ \A p \in Procs :
       WF_allVars(ServeWrite(p)) /\ WF_allVars(ServeFlush(p)) /\ WF_allVars(Abort(p))

FairSpec == LifecycleSpec /\ Fairness

-----------------------------------------------------------------------------
(* Properties *)

\* The values the variables range over; the mount goes only when nothing in it
\* is open, and then no request is left without an answer.
LifecycleTypeOK ==
  /\ process \in {"up", "exited"}
  /\ mount \in {"attached", "detached"}
  /\ signal \in {"waiting", "unmounting", "exiting"}
  /\ closed \in {"no", "ok", "error"}
  /\ aborted # {} => process = "exited"
  /\ mount = "detached" => ~open
  /\ ~open => closed # "no" /\ \A p \in Procs : Returned(p)

\* When the last descriptor is closed the API has the last Write, or the last
\* close has returned an error, or a Write has changed h.data in the middle of
\* a Flush: neither Ctrl-C at any moment, nor the death of the process, nor a
\* call applied after it, loses a Write silently.
NoSilentLoss == ~open => overlapped \/ closed = "error" \/ remote >= written

\* A Flush whose own API call ends returns, also when the API calls of other
\* processes' Flushes of the same handle never do.
ClosesDontBlock ==
  \A p \in Procs \ Hung : pc[p] = "snapshot" ~> Returned(p)

\* After a signal the process ends, and with it every request, also those
\* whose API calls never would.
ExitsOnSignal ==
  signal = "unmounting" ~> process = "exited" /\ \A p \in Procs : Returned(p) \/ ~open
=============================================================================
