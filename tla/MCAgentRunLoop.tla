--------------------------- MODULE MCAgentRunLoop ---------------------------
(* Small instances of AgentRunLoop.                                        *)
EXTENDS AgentRunLoop

QueueKinds == {"promote", "reorder", "remove", "pauseQueue", "resumeQueue", "resumeAll"}
StopKinds == {"cancel", "cancelConversation", "stale", "promote"}
RetryKinds == {"retry"}
LiveKinds == {"cancelConversation", "promote", "pauseQueue", "resumeQueue", "pause", "resume", "retry", "toolCancel"}
MainKinds == QueueKinds \cup StopKinds
NoTools == {}
FirstTool == {1}
AllTools == Tool
Resident == {FALSE}
OnDisk == {TRUE}
=============================================================================
