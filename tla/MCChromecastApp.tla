--------------------------- MODULE MCChromecastApp ---------------------------
(* Model checking of ChromecastApp: the Chromecasts and scans of its runs.   *)
EXTENDS ChromecastApp

Quiet == [trying |-> NoNetwork, good |-> FALSE, keep |-> FALSE,
          ssid |-> NoNetwork, state |-> "idle", saved |-> {}, hotspot |-> FALSE]
On(network) == [Quiet EXCEPT !.ssid = network, !.state = "connected", !.saved = {network}]
InSetup == [Quiet EXCEPT !.hotspot = TRUE]

\* One Chromecast, in reach at home, and a scan of two networks.
HomeCast == {[tv |-> On("home")], [tv |-> InSetup]}
HomeKnown == <<"tv">>
TwoNetworks == {<<"cafe", "home">>}

\* Two Chromecasts seen before, of which only the second answers.
DenAnswers == {[tv |-> InSetup, den |-> On("home")]}
TwoKnown == <<"tv", "den">>
NoScan == {<<>>}
==============================================================================
