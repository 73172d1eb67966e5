CONSTANTS
  Preparers = {p1}
  Gpus = {nv, amd}
  NvidiaGpus = {nv}
  Packages = {oem1}
  Payloads = {good}
  NoPayload = nopayload
  NoFile = nofile
  Killed = killed
  MaxHostChanges = 2
SPECIFICATION FairDtSpec
PROPERTY RetryPublishes
CHECK_DEADLOCK FALSE
