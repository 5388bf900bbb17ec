---------------------------- MODULE MCNativeImages ----------------------------
(* Two development extensions of the WY kernels in two directories, found by
   one relative path, each with a device library beside
   it; serving libraries of the right target in one directory and of the wrong
   one in the other; PPU1.5 extensions of both; and the packaged wheel.  The
   first extension and its device library are rebuilt, the wheel upgraded file
   by file, to a later build or to one for another target.                    *)
EXTENDS NativeImages

MCFiles == {"extA", "extB", "devA", "devB", "serving15", "serving10", "native15", "native10", "seal", "manifest", "library"}
MCDeviceName == [f \in {"devA", "devB"} |-> "libgdn_wy_ppu.so"]
MCNeeds == [f \in MCFiles |-> CASE f = "extA" -> "devA" [] f = "extB" -> "devB" [] OTHER -> None]
MCPackaged == [seal |-> "seal", manifest |-> "manifest", library |-> "library"]

Binding(name, target, entries) ==
  [init |-> name, target |-> target, entries |-> entries, abi |-> FALSE, version |-> 0, targets |-> {},
   made |-> 0]
Shared(target, made) ==
  [init |-> "none", target |-> target, entries |-> {}, abi |-> TRUE, version |-> 1,
   targets |-> {"ppu10"}, made |-> made]
MCBuilt ==
  [b \in {"wy1", "wy2", "dev1", "dev2", "ppu15x", "ppu15", "wheel1", "wheel2", "wheel15",
          "so15", "so10"} |->
     CASE b \in {"wy1", "wy2"} -> Binding("_gdn_wy_ppu", "ppu10", {"forward"} \union (IF b = "wy1" THEN {"full-chunk"} ELSE {}))
       [] b = "ppu15x" -> Binding("_gdn_residual_ppu15", "ppu10", {"forward"})
       [] b = "ppu15" -> Binding("_gdn_residual_ppu15", "ppu15", {"forward"})
       [] b = "so15" -> Shared("ppu15", 1)
       [] b = "wheel15" -> [Shared("ppu15", 2) EXCEPT !.targets = {"ppu15"}]
       [] OTHER -> Shared("ppu10", IF b = "wheel2" THEN 2 ELSE 1)]
MCBuildOf ==
  [f \in MCFiles |->
     CASE f \in {"extA", "extB"} -> "wy1" [] f \in {"devA", "devB"} -> "dev1"
       [] f = "serving15" -> "so15" [] f = "serving10" -> "so10"
       [] f = "native15" -> "ppu15" [] f = "native10" -> "ppu15x" [] OTHER -> "wheel1"]
MCRebuilds ==
  [f \in {"extA", "devA", "seal", "manifest", "library"} |->
     CASE f = "extA" -> {"wy2"} [] f = "devA" -> {"dev2"} [] OTHER -> {"wheel2", "wheel15"}]

MCGroup == [f \in MCFiles |-> IF f \in {"extA", "devA"} THEN 1 ELSE 2]

MCAbsolute == {"/n15", "/n10"}
MCPlace ==
  [k \in ({"a", "b"} \X {"x", "s"}) \union {<<"", "/n15">>, <<"", "/n10">>} |->
     CASE k = <<"a", "x">> -> "extA" [] k = <<"b", "x">> -> "extB"
       [] k = <<"a", "s">> -> "serving10" [] k = <<"b", "s">> -> "serving15"
       [] k[2] = "/n15" -> "native15" [] OTHER -> "native10"]
With(wy, serving, ppu15) ==
  [v \in Variables |-> CASE v = "GDN_QSA_WY_EXTENSION" -> wy
                         [] v = "ACTLIZE_LA_SERVING_LIBRARY" -> serving
                         [] v = "GDN_QSA_PPU15_EXTENSION" -> ppu15
                         [] OTHER -> None]
MCEnvironments ==
  {With(None, None, None), With("x", None, None),
   With(None, "s", "/n15"), With("x", "s", "/n10")}
MCCwds == {"a", "b"}

Call(algorithm, backend, delivery) ==
  [algorithm |-> algorithm, backend |-> backend, delivery |-> delivery, initial |-> TRUE,
   configuration |-> None, mode |-> "device", sms |-> 0]
MCRequests ==
  {Call("residual", "ppu10", None), Call("auto", "ppu15", None), Call("wy", None, None)}
=============================================================================
