------------------------------- MODULE PageMap -------------------------------
(***************************************************************************)
(* What MapPage, FlagPage and UnmapPage promise: a map from the virtual    *)
(* pages of an address space to a frame and the flags it is mapped with,   *)
(* or to Nothing; a call on a page leaves every other page alone.          *)
(***************************************************************************)
CONSTANTS Pages, Frames, FlagSets, NULL

VARIABLE map

Nothing == [Address |-> NULL, Flags |-> {}]

Init == \A virt \in DOMAIN map : map[virt] = Nothing

Map(virt) ==
    /\ map[virt] = Nothing
    /\ map'[virt].Address \in Frames
    /\ map'[virt].Flags \in FlagSets

Flag(virt) ==
    /\ map[virt] # Nothing
    /\ map'[virt].Address = map[virt].Address
    /\ map'[virt].Flags \in FlagSets

(* Also what a change of flags that takes READ away comes to.              *)
Unmap(virt) ==
    /\ map[virt] # Nothing
    /\ map'[virt] = Nothing

Next ==
    \E virt \in Pages :
        /\ map' = [map EXCEPT ![virt] = map'[virt]]
        /\ Map(virt) \/ Flag(virt) \/ Unmap(virt)

Spec == Init /\ [][Next]_map

=============================================================================
