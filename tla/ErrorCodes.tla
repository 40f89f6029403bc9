----------------------------- MODULE ErrorCodes -----------------------------
(***************************************************************************)
(* What becomes of an error on its way to the caller.  An error of the     *)
(* device or sysfs layer is given a D-Bus name by the daemon and a code by *)
(* the client, which the CLI prints and the plugin acts upon.              *)
(***************************************************************************)

\* daemon: the wrapped error, or the kbd code, decides the name.
mapError(err) ==
  CASE err = "denied" -> "Denied"
    [] err \in {"kbd-bad-request", "hw-bad-request", "invalid-curve", "curve-active"} -> "BadRequest"
    [] err \in {"kbd-not-found", "hw-missing"} -> "HwMissing"
    [] err = "hw-not-supported" -> "NotSupported"
    [] err = "kbd-busy" -> "Busy"
    [] OTHER -> "Internal"

\* client: the suffix of the name, or one of the bus's own names.
MapDBusError(name) ==
  CASE name \in {"Denied", "AccessDenied"} -> "denied"
    [] name = "BadRequest" -> "bad-request"
    [] name = "NotSupported" -> "not-supported"
    [] name = "HwMissing" -> "hw-missing"
    [] name = "Busy" -> "device-busy"
    [] name \in {"ServiceUnknown", "NameHasNoOwner", "NoReply", "NoServer", "Disconnected", "TimedOut",
                "NoSuchUnit", "Spawn.ChildExited"} -> "no-daemon"
    [] OTHER -> "internal"

CodeOf(err) == MapDBusError(mapError(err))
=============================================================================
