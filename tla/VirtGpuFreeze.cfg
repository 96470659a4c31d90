CONSTANT IDX = 16
SPECIFICATION TimedSpec
PROPERTY GpuRefreshGoesOn
CHECK_DEADLOCK FALSE
