---------------------------- MODULE MCBackdropd ----------------------------
(* A small instance of Backdropd: two backdrops and outputs that come and go
   between two probes. *)
EXTENDS Backdropd

MCValues == {"Rose", "Slate"}
MCLayouts == {<<"default">>, <<"HDMI-1", "eDP-1">>}
=============================================================================
