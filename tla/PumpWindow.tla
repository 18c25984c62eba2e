------------------------------ MODULE PumpWindow ------------------------------
(***************************************************************************)
(* The rolling window of the pump scanner: a scan stamps the tickers when  *)
(* it starts, pushes them when they have been fetched, prunes, and looks   *)
(* for an anomaly over a whole window.  Prices and volumes are free: only  *)
(* the times decide here.                                                  *)
(***************************************************************************)
EXTENDS Integers, FiniteSets, FiniteSetsExt

CONSTANTS
    WindowMs,          \* windowMs, also the priceChangeWindowMs of the detector
    SamplesPerWindow,  \* cap of the samples
    MaxFetch,          \* bound: the longest fetch
    MaxScanTime        \* bound: of the clock

ASSUME PumpAssumption ==
    /\ {WindowMs, SamplesPerWindow, MaxFetch, MaxScanTime} \subseteq Nat \ {0}

VARIABLES
    scanClock,
    samples,   \* times of the samples kept
    detected   \* an anomaly could have been reported

pumpVars == <<scanClock, samples, detected>>

-----------------------------------------------------------------------------
DropOldest(s) ==
    IF Cardinality(s) > SamplesPerWindow THEN s \ {Min(s)} ELSE s

\* pruneOld.
PruneOld(s, t) == DropOldest({x \in s : x >= t - WindowMs})

\* detectPumpAnomaly: two samples that span the window; the price and the
\* volume then decide.
Spans(s) == Cardinality(s) >= 2 /\ Max(s) - Min(s) >= WindowMs

\* One scan: the stamp is taken, the tickers fetched, pushed and pruned by the
\* stamp; the snapshot prunes by the time it is taken.  Fetching takes time.
Scan(fetch) ==
    /\ scanClock + fetch <= MaxScanTime
    /\ LET pushed   == PruneOld(samples \cup {scanClock}, scanClock)
           snapshot == PruneOld(pushed, scanClock + fetch)
       IN /\ samples' = snapshot
          /\ detected' \in {detected, detected \/ Spans(snapshot)}
    /\ scanClock' = scanClock + fetch

\* The scan is skipped: a position is open, or the fetch failed.
SkipScan ==
    /\ scanClock < MaxScanTime
    /\ scanClock' = scanClock + 1
    /\ UNCHANGED <<samples, detected>>

PumpInit ==
    /\ scanClock = 1
    /\ samples = {}
    /\ detected = FALSE

PumpNext == SkipScan \/ \E fetch \in 1..MaxFetch : Scan(fetch)

PumpSpec == PumpInit /\ [][PumpNext]_pumpVars

-----------------------------------------------------------------------------
(* Properties.                                                             *)

\* deploy/README.md:367-370 expects 5 to 20 detections a day, and the tests of
\* the detector hand it windows that span windowMs (pump-scanner.test.ts:25-33).
\* At the least, a scan that starts with a sample as old as the window has to
\* show the detector the whole window; price and volume then decide.  The push
\* keeps that sample; the snapshot, taken when the tickers have been fetched,
\* drops it.
WholeWindowSeen ==
    [][\A fetch \in 1..MaxFetch :
          Scan(fetch) /\ (\E x \in samples : scanClock - x >= WindowMs) => Spans(samples')]_pumpVars

\* What the code does: no snapshot ever spans the window the detector asks for,
\* so nothing is reported.
ScannerBlind == ~detected

=============================================================================
