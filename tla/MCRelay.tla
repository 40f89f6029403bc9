------------------------------ MODULE MCRelay ------------------------------
EXTENDS Relay

Attrs(dir, n) == [a \in {dir} \X n |-> 0]

Acpi == (profilePath :> "balanced") @@ (profileChoicesPath :> {"balanced", "custom"})
Limits == [a \in {constraintPath(i) : i \in Constraints} |-> 65000000]
Speeds == (<<"scaling_cur_freq", 0>> :> 2100000) @@ (<<"scaling_cur_freq", 1>> :> 0)

Alien ==
  [name |-> "alienware_wmi",
   attr |-> Attrs("fan_boost", Fans) @@ (<<"fan_input", 1>> :> 6000) @@ (<<"fan_input", 2>> :> 1900)
            @@ (<<"fan_max", 1>> :> 5000) @@ (<<"fan_max", 2>> :> 0) @@ (<<"temp_input", 1>> :> 46500)]
Other == [name |-> "coretemp", attr |-> Attrs("temp_input", {1})]
Dell == [name |-> "dell_smm", attr |-> (<<"temp_input", 3>> :> -500) @@ (<<"temp_input", 6>> :> 45000)]

Nominal ==
  [hwmon |-> <<Other, Alien, Dell>>, attr |-> Acpi @@ Limits @@ Speeds @@ (noTurboPath :> 0),
   rapl |-> TRUE, readonly |-> {constraintPath(2)}, refuses |-> [a \in {} |-> ""], gpu |-> "row"]

Without(t, lost) == [t EXCEPT !.attr = [a \in DOMAIN t.attr \ lost |-> t.attr[a]]]

\* The test suite's fixture, and what it may lack or refuse.
SampleTrees ==
  {Nominal,
   [Nominal EXCEPT !.hwmon = <<Other, Dell>>, !.gpu = "none"],
   [Nominal EXCEPT !.hwmon = <<Alien, Alien>>, !.gpu = "asleep"],
   [Without(Nominal, {constraintPath(i) : i \in Constraints}) EXCEPT !.rapl = FALSE],
   Without(Nominal, {constraintPath(1), noTurboPath}),
   Without(Nominal, {profileChoicesPath}),
   Without(Nominal, {profilePath, <<"scaling_cur_freq", 0>>, <<"scaling_cur_freq", 1>>}),
   [Nominal EXCEPT !.readonly = {profilePath, noTurboPath, constraintPath(0)}],
   [Nominal EXCEPT !.refuses = (profilePath :> "invalid") @@ (<<"fan_boost", 1>> :> "io") @@ (noTurboPath :> "io")]}

\* Every number is at an edge: one more than a boost holds, one more than the watts
\* the daemon takes, and a number of watts that is cut when it is sent.
SomeRequests ==
  {[verb |-> "boost", fan |-> 1, value |-> 255], [verb |-> "boost", fan |-> 1, value |-> 256],
   [verb |-> "boost", fan |-> 3, value |-> 10],
   [verb |-> "profile", name |-> "custom"], [verb |-> "profile", name |-> "turbo"],
   [verb |-> "turbo", on |-> FALSE],
   [verb |-> "pl", index |-> 0, watts |-> 1000], [verb |-> "pl", index |-> 0, watts |-> 1001],
   [verb |-> "pl", index |-> 0, watts |-> Words + 45], [verb |-> "pl", index |-> 2, watts |-> 45],
   [verb |-> "pl", index |-> 3, watts |-> 45]}
=============================================================================
