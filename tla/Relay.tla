------------------------------- MODULE Relay -------------------------------
(***************************************************************************)
(* One setting on its way from the plugin to sysfs: the plugin's writer    *)
(* runs `alienwarectl', which checks its arguments and calls the daemon;   *)
(* the daemon has a goroutine for every call, which asks polkit, checks,   *)
(* writes and answers.                                                     *)
(*                                                                         *)
(* The plugin waits for one command at a time and kills one that takes 20  *)
(* seconds.  polkit may take 30 over the user's password, so a call        *)
(* outlives its command: nobody waits for its answer, and the next command *)
(* is under way when it writes.  Meanwhile the daemon may die, and a       *)
(* driver may take its attributes away.                                    *)
(***************************************************************************)
EXTENDS Sysfs, ErrorCodes

CONSTANTS
  Handlers,    \* the daemon's goroutines
  Nobody,
  Requests,    \* what may be typed: verbs and their arguments
  Trees,       \* what sysfs may hold at first
  Words,       \* numbers are sent in 32 bits: 2^32 in the code
  MaxCalls,    \* bound: commands given
  MaxGone      \* bound: attributes and drivers that go away

ASSUME RelayAssumption == Nobody \notin Handlers /\ Words \in Nat /\ Words > 1000 /\ MaxCalls \in Nat /\ MaxGone \in Nat

\* A verb comes with its arguments, of any size.
ASSUME RequestsAssumption ==
  \A r \in Requests :
    \/ r.verb = "boost" /\ r = [verb |-> "boost", fan |-> r.fan, value |-> r.value] /\ r.fan \in Int /\ r.value \in Int
    \/ r.verb = "profile" /\ r = [verb |-> "profile", name |-> r.name]
    \/ r.verb = "turbo" /\ r = [verb |-> "turbo", on |-> r.on] /\ r.on \in BOOLEAN
    \/ r.verb = "pl" /\ r = [verb |-> "pl", index |-> r.index, watts |-> r.watts] /\ r.index \in Int /\ r.watts \in Int

ASSUME TreesAssumption == \A t \in Trees : Sound(t)

VARIABLES
  tree,        \* sysfs
  up,          \* the daemon runs
  call,        \* each handler's pc, "free", "auth", "check" or "write", and its call
  served,      \* the handler the plugin's command waits for, Nobody for none
  code,        \* what the last command printed
  said,        \* history: what the commands that printed ok had put in each attribute
  late,        \* history: attributes written for a command that was killed
  asked, gone  \* how much of the bounds is used up

vars == <<tree, up, call, served, code, said, late, asked, gone>>

Free == [pc |-> "free", c |-> [verb |-> "none"]]
NothingSaid == [a \in {} |-> 0]
Targets == {Target(c) : c \in {r \in Requests : r.verb # "boost" \/ r.fan \in Fans}}

-----------------------------------------------------------------------------
\* The command line.

cliAccepts(c) ==
  CASE c.verb = "profile" -> TRUE
    [] c.verb = "boost" -> c.fan \in Fans /\ c.value \in 0..255
    [] c.verb = "turbo" -> c.on \in BOOLEAN
    [] c.verb = "pl" -> c.index + 1 \in 1..3 /\ c.watts >= 1

\* The call as it is sent.
Sent(c) == IF c.verb = "pl" THEN [c EXCEPT !.watts = @ % Words] ELSE c

-----------------------------------------------------------------------------
SaneLimits == {Microwatts * watts : watts \in 1..1000}

SaneValue(a, v) ==
  /\ a[1] = "fan_boost" => v \in 0..255
  /\ a = profilePath => v \in UNION {t.attr[profileChoicesPath] :
                                    t \in {u \in Trees : Readable(u, profileChoicesPath)}}
  /\ a = noTurboPath => v \in 0..1
  /\ a[1] = "power_limit_uw" => v \in SaneLimits

TypeOK ==
  /\ up \in BOOLEAN
  /\ \A g \in Handlers : call[g].pc \in {"free", "auth", "check", "write"}
  /\ served \in Handlers \cup {Nobody}
  /\ served # Nobody => call[served].pc # "free"
  /\ ~up => \A g \in Handlers : call[g] = Free
  /\ DOMAIN said \subseteq Targets /\ late \subseteq Targets
  /\ asked \in 0..MaxCalls /\ gone \in 0..MaxGone

Init ==
  /\ tree \in Trees /\ up = TRUE
  /\ call = [g \in Handlers |-> Free] /\ served = Nobody
  /\ code = "none" /\ said = NothingSaid /\ late = {} /\ asked = 0 /\ gone = 0

-----------------------------------------------------------------------------
\* The plugin starts a command when none is running.
Ask(c) ==
  /\ served = Nobody /\ asked < MaxCalls
  /\ asked' = asked + 1
  /\ IF cliAccepts(c) /\ up
     THEN \E g \in Handlers :
            /\ call[g].pc = "free"
            /\ call' = [call EXCEPT ![g] = [pc |-> "auth", c |-> Sent(c)]]
            /\ served' = g /\ code' = "none"
     ELSE /\ code' = IF cliAccepts(c) THEN MapDBusError("ServiceUnknown") ELSE "bad-request"
          /\ UNCHANGED <<call, served>>
  /\ UNCHANGED <<tree, up, said, late, gone>>

\* The handler answers, and the command prints, if it is still there.
Answer(g, err) ==
  /\ call' = [call EXCEPT ![g] = Free]
  /\ IF served = g THEN served' = Nobody /\ code' = IF err = "none" THEN "ok" ELSE CodeOf(err)
     ELSE UNCHANGED <<served, code>>

\* polkit, or the user it asks, answers.
Authorize(g) ==
  /\ call[g].pc = "auth"
  /\ \/ call' = [call EXCEPT ![g].pc = "check"] /\ UNCHANGED <<served, code>>
     \/ Answer(g, "denied")
  /\ UNCHANGED <<tree, up, said, late, asked, gone>>

\* Mutant: only a command that still waits has its call time out.
AuthorizeTimesOutIfServed(g) ==
  /\ call[g].pc = "auth" /\ served = g
  /\ Answer(g, "denied")
  /\ UNCHANGED <<tree, up, said, late, asked, gone>>

\* No answer for 30 seconds.
AuthorizeTimesOut(g) ==
  /\ call[g].pc = "auth"
  /\ Answer(g, "denied")
  /\ UNCHANGED <<tree, up, said, late, asked, gone>>

Check(g) ==
  /\ call[g].pc = "check"
  /\ IF Refusal(tree, call[g].c) = "none"
     THEN call' = [call EXCEPT ![g].pc = "write"] /\ UNCHANGED <<served, code>>
     ELSE Answer(g, Refusal(tree, call[g].c))
  /\ UNCHANGED <<tree, up, said, late, asked, gone>>

Say(c) == said' = [a \in DOMAIN said \cup {Target(c)} |-> IF a = Target(c) THEN Value(c) ELSE said[a]]

\* Mutant: the kernel's refusal is not passed on.
WriteUnchecked(g) ==
  LET c == call[g].c
  IN  /\ call[g].pc = "write"
      /\ Answer(g, "none")
      /\ tree' = IF WriteError(tree, c) = "none" THEN Written(tree, c) ELSE tree
      /\ IF served = g THEN Say(c) /\ UNCHANGED late
         ELSE late' = late \cup {Target(c)} /\ UNCHANGED said
      /\ UNCHANGED <<up, asked, gone>>

\* The attribute may have gone since it was checked.
Write(g) ==
  LET c == call[g].c
  IN  /\ call[g].pc = "write"
      /\ Answer(g, WriteError(tree, c))
      /\ IF WriteError(tree, c) # "none" THEN UNCHANGED <<tree, said, late>>
         ELSE /\ tree' = Written(tree, c)
              /\ IF served = g THEN Say(c) /\ UNCHANGED late
                 ELSE late' = late \cup {Target(c)} /\ UNCHANGED said
      /\ UNCHANGED <<up, asked, gone>>

\* The plugin's watchdog kills the command, which tells the daemon nothing.
Kill ==
  /\ served # Nobody
  /\ served' = Nobody /\ code' = "killed"
  /\ UNCHANGED <<tree, up, call, said, late, asked, gone>>

-----------------------------------------------------------------------------
\* Mutant: nobody answers for a daemon that has died.
CrashUnanswered ==
  /\ up
  /\ up' = FALSE /\ call' = [g \in Handlers |-> Free]
  /\ UNCHANGED <<tree, served, code, said, late, asked, gone>>

\* The daemon dies, and the bus answers for it.
Crash ==
  /\ up
  /\ up' = FALSE /\ call' = [g \in Handlers |-> Free] /\ served' = Nobody
  /\ code' = IF served # Nobody THEN MapDBusError("NoReply") ELSE code
  /\ UNCHANGED <<tree, said, late, asked, gone>>

\* systemd's reset of the fans, and the daemon's own as it starts.
Restart ==
  /\ ~up
  /\ up' = TRUE /\ tree' = ResetBoost(tree)
  /\ said' = [a \in {b \in DOMAIN said : b[1] # "fan_boost"} |-> said[a]]
  /\ UNCHANGED <<call, served, code, late, asked, gone>>

\* A driver is unloaded.
Vanish(a) ==
  /\ gone < MaxGone /\ gone' = gone + 1
  /\ \/ /\ a \in DOMAIN tree.attr
        /\ tree' = [tree EXCEPT !.attr = [b \in DOMAIN @ \ {a} |-> @[b]]]
     \/ /\ Has(tree, Alienware(tree), a)
        /\ tree' = [tree EXCEPT !.hwmon = [i \in {j \in DOMAIN @ : @[j].name # AlienwareHwmonName} |-> @[i]]]
  /\ UNCHANGED <<up, call, served, code, said, late, asked>>

Handler(g) == AuthorizeTimesOut(g) \/ Check(g) \/ Write(g)

Next ==
  \/ \E c \in Requests : Ask(c)
  \/ \E g \in Handlers : Handler(g) \/ Authorize(g)
  \/ Kill \/ Crash \/ Restart \/ \E a \in Targets : Vanish(a)

Spec == Init /\ [][Next]_vars

\* The Go scheduler runs the handlers and their timers; polkit owes no answer.
FairSpec == Spec /\ \A g \in Handlers : WF_vars(Handler(g))
-----------------------------------------------------------------------------
(***************************************************************************)
(* Properties                                                              *)
(***************************************************************************)

\* What is typed, however large, puts nothing into an attribute that the hardware
\* should not be asked for: a boost in 0..255, a profile of the list, a limit of 1
\* to 1000 W (cli.go:154-212, SetBoost to SetPowerLimit in hw/write.go).
WritesAreSane ==
  [][\A g \in Handlers : call[g].pc = "write" /\ tree' # tree =>
       \A a \in Targets :
         /\ a \in DOMAIN tree.attr \cap DOMAIN tree'.attr /\ tree.attr[a] # tree'.attr[a] =>
              SaneValue(a, tree'.attr[a])
         /\ Has(tree', Alienware(tree'), a) => SaneValue(a, Get(tree', Alienware(tree'), a, 0))]_vars

\* The status tells the plugin beforehand what the daemon will take: a limit it lists
\* as writable, a profile among its choices, turbo where it is available, and what it
\* does not list is refused.  A write that is taken is what the next status shows
\* (read.go:129-235 against write.go:80-137).
StatusForetellsWrites ==
  LET s == Snapshot(tree)
      taken(c) == Refusal(tree, c) = "none" /\ WriteError(tree, c) = "none"
      trusted(c) == Target(c) \notin DOMAIN tree.refuses
      after(c) == Snapshot(Written(tree, c))
      limit(i) == [verb |-> "pl", index |-> i, watts |-> 45]
      turbo(on) == [verb |-> "turbo", on |-> on]
      profile(p) == [verb |-> "profile", name |-> p]
  IN  /\ \A i \in Constraints :
           /\ Refusal(tree, limit(i)) = "none" <=> \E l \in s.power : l.index = i /\ l.writable
           /\ taken(limit(i)) => [index |-> i, watts |-> 45, writable |-> TRUE] \in after(limit(i)).power
      /\ \A on \in BOOLEAN :
           /\ Refusal(tree, turbo(on)) = "none" <=> s.turbo.available
           /\ taken(turbo(on)) => after(turbo(on)).turbo.enabled = on
      /\ \A p \in s.profile.choices :
           /\ s.profile.writable /\ trusted(profile(p)) => taken(profile(p))
           /\ taken(profile(p)) => after(profile(p)).profile.current = p
      /\ \A i \in Fans : s.fans[i].percent \in 0..100

\* What a command printed as done stays done, unless a later command, a restart for
\* the fans, or a call that outlived its command has changed it (the plugin's writer,
\* Service.qml:547-588).
SaidStands ==
  \A a \in DOMAIN said \ late :
    \/ a \in DOMAIN tree.attr /\ tree.attr[a] = said[a]
    \/ Has(tree, Alienware(tree), a) /\ Get(tree, Alienware(tree), a, 0) = said[a]
    \/ a \notin DOMAIN tree.attr /\ ~Has(tree, Alienware(tree), a)

\* Every call ends, whatever became of its command and of polkit: the thirty seconds
\* of authorizeTimeout end it (polkit.go:52-81).
CallsEnd == \A g \in Handlers : []<>(call[g].pc = "free")
=============================================================================
