---------------------------- MODULE MCScanPipeline ----------------------------
(* Values of ScanPipeline's constants for TLC.                             *)
EXTENDS ScanPipeline, TLC

CONSTANTS r1, t1, t2, m1, m2

\* A run of two tasks: one whose output is captured, one without.
OneRun     == (t1 :> r1) @@ (t2 :> r1)
CaptureTwo == (t1 :> "stdout") @@ (t2 :> "none")
FilesTwo   == (t1 :> "nmap.xml") @@ (t2 :> "nikto.xml")

\* A run of one task beside a schedule whose cron expression is refused.
SmallRun   == t1 :> r1
CaptureBad == (t1 :> "stdout") @@ (m2 :> "stdout")
FilesBad   == (t1 :> "nmap.xml") @@ (m2 :> "zap.json")

\* A run of one task beside a recurring schedule; the tools write the file that
\* the SARIF usages of trivy, semgrep and gosec all name.
CaptureMix == (t1 :> "file") @@ (m1 :> "file")
FilesMix   == (t1 :> "results.sarif") @@ (m1 :> "results.sarif")
===============================================================================
