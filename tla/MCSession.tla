------------------------------- MODULE MCSession -------------------------------
(* Model checking of Session: the Chromecasts and scans of its runs.         *)
EXTENDS Session

Quiet == [trying |-> NoNetwork, good |-> FALSE, keep |-> FALSE,
          ssid |-> NoNetwork, state |-> "idle", saved |-> {}, hotspot |-> FALSE]

\* A Chromecast on a network it has saved, one in setup mode, and one just joined there.
On(network) == [Quiet EXCEPT !.ssid = network, !.state = "connected", !.saved = {network}]
InSetup == [Quiet EXCEPT !.hotspot = TRUE]
Joined(network) == [InSetup EXCEPT !.ssid = network, !.state = "unsaved"]

\* One Chromecast, at home or in setup mode, to be moved to the cafe's network.
OneCast == [{"tv"} -> {On("home"), InSetup}]
OneKnown == <<"tv">>
CafeScan == {<<"cafe">>}

\* One whose network is the one it is given again.
CafeCast == {[tv |-> On("cafe")]}

\* Three: the phone is on the hotspot of one that is on the phone's Wi-Fi too, and one tells
\* neither its MAC address nor its UDN.
ThreeCasts == {[tv |-> Joined("home"), den |-> c, guest |-> On("home")] :
                  c \in {On("home"), InSetup}}
TwoKnown == <<"den">>
HomeScans == {<<>>, <<"home">>}
================================================================================
