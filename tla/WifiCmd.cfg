SPECIFICATION FairSpec
CONSTANTS
  mac = mac
  router = router
  Server = Server
  Cmds <- MCCmds
  Boot <- MCBoot
  ShellCmds <- MCShellCmds
  ReadCmds <- MCReadCmds
  BufferCmds <- MCBufferCmds
  Tries = 2
  MaxTyped = 1
  MaxServer = 1
INVARIANTS TypeOK AcceptedWasExecuted TakesFreshPacket
PROPERTY BootEnds
CHECK_DEADLOCK FALSE
