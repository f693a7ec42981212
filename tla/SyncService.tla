----------------------------- MODULE SyncService ----------------------------
(***************************************************************************)
(* cAppSync: the Sync and Follow_Up messages of a master port, and what a  *)
(* slave port computes from them.  A service is a record.                  *)
(***************************************************************************)
EXTENDS PtpMac

\* syncSequID is not initialised; clean is history, see Frame.
AppSync(garbage) ==
  [sequId |-> 0, syncIngress |-> NoTime, syncCorr |-> 0, syncSequID |-> garbage,
   clean |-> FALSE]

CreateSyncFrame(sync, port, twoStep) == Frame("SYNC", port, sync.sequId, twoStep)

\* Of a Sync of this clock, or of one that passes through it; its twoStepFlag is
\* cleared.
CreateFollowUpFrame(pSync) ==
  [Frame("FOLLOW_UP", pSync.source, pSync.seq, FALSE)
     EXCEPT !.origin = pSync.origin]

\* HandleIntervalEvent, TriggerFollowUp
SyncFrames(sync, port, twoStep) ==
  LET pSync == CreateSyncFrame(sync, port, twoStep)
  IN  IF twoStep THEN <<pSync, CreateFollowUpFrame(pSync)>> ELSE <<pSync>>

\* MUTANT of OffsetFromMaster: the correction of the Follow_Up is left out.
OffsetWithoutFollowUp(syncIngress, originTimestamp, meanPathDelay, syncCorr, followUpCorr) ==
  syncIngress - originTimestamp - meanPathDelay - syncCorr

\* offsetFromMaster_raw of SynchronizeClock
OffsetFromMaster(syncIngress, originTimestamp, meanPathDelay, syncCorr, followUpCorr) ==
  syncIngress - originTimestamp - meanPathDelay - syncCorr - followUpCorr

\* HandleSync of a slave port keeps the times of a two-step Sync.
SyncStored(sync, f) ==
  IF f.twoStep
  THEN [sync EXCEPT !.syncIngress = f.stamp, !.syncCorr = f.corr,
                    !.syncSequID = f.seq, !.clean = f.clean]
  ELSE sync

\* The messages at which HandleSync and HandleFollowUp call SynchronizeClock.
Associated(sync, f) ==
  \/ f.type = "SYNC" /\ ~f.twoStep
  \/ f.type = "FOLLOW_UP" /\ f.seq = sync.syncSequID

=============================================================================
