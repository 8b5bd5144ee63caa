------------------------------ MODULE MCRoutes ------------------------------
(* Two networks, Wi-Fi and Ethernet *)
EXTENDS Routes, TLC
CONSTANTS wifi, ether
Cards == wifi :> "en0" @@ ether :> "en1"
=============================================================================
