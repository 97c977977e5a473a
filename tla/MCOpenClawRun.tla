---------------------------- MODULE MCOpenClawRun ---------------------------
(***************************************************************************)
(* The three modes of a run.  Agent and voice may dial twice: a retried    *)
(* handshake, or the second client of a transcription.                     *)
(***************************************************************************)
EXTENDS OpenClawRun

ByMode(agent, realtime, voice) ==
  [mode_ \in {"agent", "realtime", "voice"} |->
     CASE mode_ = "agent" -> agent [] mode_ = "realtime" -> realtime [] OTHER -> voice]
MCDials == ByMode(2, 1, 2)
MCMaxEvents == ByMode(1, 2, 2)
MCMaxDuplicates == ByMode(1, 0, 0)
=============================================================================
