--------------------------- MODULE PluginProfile ---------------------------
(***************************************************************************)
(* How the shell plugin carries the platform profile across a suspend      *)
(* (src/Service.qml): a snapshot of what the last status poll said, taken  *)
(* on the pre-sleep edge, and a ladder of checks that write it back.       *)
(*                                                                         *)
(* Outside the plugin the profile is changed by the user, with the Omarchy *)
(* menu or powerprofilesctl, and by power-profiles-daemon, which           *)
(* re-applies a choice of its own when the machine wakes up.               *)
(***************************************************************************)
EXTENDS PluginQueue

CONSTANTS
  Profiles,
  MaxTries,   \* checks of the ladder, 8 in the code
  MaxChoices, \* bound: profiles the user chooses
  MaxSleeps   \* bound: suspends

VARIABLES
  elc,      \* queue and processes: the record of PluginQueue
  current,  \* profileCurrent, from the last status; None before the first
  poll,     \* what the running statusProc has read, None when it does not run
  before,   \* profileBeforeSleep
  tries,    \* profileRestoreTries
  fresh,    \* lastGoodAt > resumeAt
  asleep,   \* between the two PrepareForSleep signals
  profile,  \* /sys/firmware/acpi/platform_profile
  chosen,   \* history: the profile in effect is one the user chose
  choices, sleeps \* how much of the bounds is used up

vars == <<elc, current, poll, before, tries, fresh, asleep, profile, chosen, choices, sleeps>>

\* A cold start: no snapshot, no status yet.
Init ==
  /\ elc = Idle
  /\ current = None
  /\ poll = None
  /\ before = None
  /\ tries = 0
  /\ fresh = FALSE
  /\ asleep = FALSE
  /\ profile \in Profiles
  /\ chosen = FALSE
  /\ choices = 0
  /\ sleeps = 0

\* poll starts `alienwarectl status', unless one is running; its exit is the
\* status, or nothing when it failed.
Poll ==
  /\ poll = None
  /\ poll' = profile
  /\ UNCHANGED <<elc, current, before, tries, fresh, asleep, profile, chosen, choices, sleeps>>

StatusExits ==
  /\ poll # None
  /\ poll' = None
  /\ \/ current' = poll /\ fresh' = TRUE
     \/ UNCHANGED <<current, fresh>>
  /\ UNCHANGED <<elc, before, tries, asleep, profile, chosen, choices, sleeps>>

\* PrepareForSleep(true)
Suspend ==
  /\ ~asleep /\ sleeps < MaxSleeps
  /\ asleep' = TRUE
  /\ sleeps' = sleeps + 1
  /\ before' = current
  /\ UNCHANGED <<elc, current, poll, tries, fresh, profile, chosen, choices>>

\* PrepareForSleep(false): reload polls, unless a status is running.
Resume ==
  /\ asleep
  /\ asleep' = FALSE
  /\ fresh' = FALSE
  /\ tries' = 0
  /\ poll' = IF poll = None THEN profile ELSE poll
  /\ UNCHANGED <<elc, current, before, profile, chosen, choices, sleeps>>

ShouldRestoreProfile ==
  /\ before # None /\ current # None
  /\ fresh
  /\ before # current

\* profileRestoreRetry
RestoreTick ==
  /\ before # None /\ tries < MaxTries
  /\ tries' = tries + 1
  /\ elc' = IF ShouldRestoreProfile THEN Enqueue(elc, Job("sysfs", "profile", before)) ELSE elc
  /\ before' = IF tries' = MaxTries THEN None ELSE before
  /\ UNCHANGED <<current, poll, fresh, asleep, profile, chosen, choices, sleeps>>

\* writeProc exits: the profile is written, or was refused.
WriteExits ==
  /\ elc.writing # None
  /\ elc' = WriteDone(elc)
  /\ \/ profile' = elc.writing.val /\ chosen' = (chosen /\ profile = profile')
     \/ UNCHANGED <<profile, chosen>>
  /\ UNCHANGED <<current, poll, before, tries, fresh, asleep, choices, sleeps>>

UserChooses ==
  /\ choices < MaxChoices
  /\ choices' = choices + 1
  /\ profile' \in Profiles \ {profile}
  /\ chosen' = TRUE
  /\ UNCHANGED <<elc, current, poll, before, tries, fresh, asleep, sleeps>>

\* power-profiles-daemon re-applies its own.
Drift ==
  /\ asleep
  /\ profile' \in Profiles \ {profile}
  /\ chosen' = FALSE
  /\ UNCHANGED <<elc, current, poll, before, tries, fresh, asleep, choices, sleeps>>

Next ==
  \/ Poll \/ StatusExits
  \/ Suspend \/ Resume \/ RestoreTick
  \/ WriteExits
  \/ UserChooses \/ Drift

Spec == Init /\ [][Next]_vars

-----------------------------------------------------------------------------
\* docs/behaviour.md: "changing the profile with powerprofilesctl or the
\* Omarchy menu is never fought": no write of the plugin replaces a profile
\* the user chose that way.
NeverFought == [][WriteExits /\ chosen => profile' = profile]_vars

=============================================================================
