----------------------------- MODULE MCAlienFX -----------------------------
EXTENDS AlienFX

Table == <<"power", "ring">>
TableZones == [power |-> <<0>>, ring |-> <<8, 9>>]

Part(region, colour) == [region |-> region, colour |-> colour]
SetPower == [verb |-> "set", parts |-> <<Part("power", "red")>>]
SetBoth == [verb |-> "set-map", parts |-> <<Part("ring", "red"), Part("power", "green")>>]
SetTwice == [verb |-> "set-map", parts |-> <<Part("power", "red"), Part("power", "green")>>]
IdentifyRing == [verb |-> "identify", parts |-> <<Part("ring", "red")>>]
Brightness == [verb |-> "brightness", percent |-> 75]
UsbReset == [verb |-> "reset"]

AllRequests == {SetBoth, SetTwice, SetPower, IdentifyRing, Brightness, UsbReset}

\* A device of another vendor before the controller's first number, and one whose
\* uevent names the controller in a line that is not well formed.
Others ==
  {[number |-> 0, name |-> 0,
    uevent |-> <<[key |-> "HID_ID", wellFormed |-> TRUE, vendor |-> 3426, product |-> 47804]>>],
   [number |-> Unnumbered, name |-> 9,
    uevent |-> <<[key |-> "HID_ID", wellFormed |-> FALSE, vendor |-> 0, product |-> 0],
                 [key |-> "HID_NAME", wellFormed |-> FALSE, vendor |-> 0, product |-> 0]>>]}
=============================================================================
