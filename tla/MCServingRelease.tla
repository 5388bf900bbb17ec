-------------------------- MODULE MCServingRelease --------------------------
(* A checkout that is edited twice and committed once while two wheels are
   built, one of them is qualified, and their assets are collected and mixed. *)
EXTENDS ServingRelease
MCHostTests == {"contract", "handle"}
MCFlareTests == {"component"}
Junit(report, results, rc) == [report |-> report, results |-> results, rc |-> rc]
All(outcome) == [f \in MCHostTests \union MCFlareTests |-> outcome]
MCJunitRuns ==
  {Junit(TRUE, All("passed"), 0), Junit(TRUE, [All("passed") EXCEPT !["handle"] = "missing"], 0),
   Junit(TRUE, All("skipped"), 0), Junit(TRUE, [All("passed") EXCEPT !["contract"] = "failed"], 1)}
Program(file, status, cases, complete, rc) ==
  [file |-> file, status |-> status, cases |-> cases, complete |-> complete, rc |-> rc]
MCDeviceRuns ==
  {Program(TRUE, "PASS", 2, TRUE, 0), Program(TRUE, "PASS", 1, FALSE, 0),
   Program(TRUE, "SKIP", 0, FALSE, 3)}
Installed(place, planted, abi) == [place |-> place, planted |-> planted, abi |-> abi]
Planted == {"missing-dso", "changed-binding"}
Red == [d \in Planted |-> "red"]
MCInstallations ==
  {Installed("environment", Red, "ppu10"), Installed("system", Red, "ppu10"),
   Installed("checkout", Red, "ppu10"),
   Installed("environment", [Red EXCEPT !["changed-binding"] = "green"], "ppu10"),
   Installed("environment", Red, "ppu15")}
Hardware(family, ppu, capability) == [family |-> family, ppu |-> ppu, capability |-> capability]
MCDevices ==
  {Hardware("ppu10", TRUE, <<8, 0>>), Hardware("ppu15", TRUE, <<8, 0>>),
   Hardware(None, TRUE, <<12, 0>>), Hardware(None, FALSE, <<12, 0>>)}
=============================================================================
