---------------------------- MODULE MCHciAdvScan ----------------------------
EXTENDS HciAdvScan

MCApps == {"app"}

\* One valid interval pair and one with min > max (valid_adv_param fails).
MCAdvIntervals == {<<160, 160>>, <<200, 100>>}

\* One valid scan interval/window.
MCScanWindows == {<<96, 48>>}
=============================================================================
