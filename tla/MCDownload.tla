----------------------------- MODULE MCDownload -----------------------------
(* Two runs, together or one after the other, and two images of the same     *)
(* file name (iso_name calls every link without one "Windows.iso").          *)
EXTENDS Download, TLC

CONSTANTS x64, arm64, r1, r2

MCJobs == {[ids |-> 2, want |-> "x64", goal |-> "iso"], [ids |-> 1, want |-> "any", goal |-> "iso"],
           [ids |-> 1, want |-> "any", goal |-> "url"], [ids |-> 1, want |-> "any", goal |-> "langs"]}
MCArch == (x64 :> "x64") @@ (arm64 :> "ARM64")
=============================================================================
