\* Five bags, so that the threshold is one failure; two workers.
SPECIFICATION FairSpec
CONSTANTS
  Count = 5
  Workers = {w1, w2}
INVARIANTS ChecksKeepConnection RebuiltWhenQuiet StopIsPrompt SkipJustified AllAnswered
PROPERTIES Finishes
CHECK_DEADLOCK FALSE
