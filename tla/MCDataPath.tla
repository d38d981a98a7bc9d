------------------------------ MODULE MCDataPath -----------------------------
(***************************************************************************)
(* Instance of DataPath: six messages, one of them long, of which every    *)
(* second frame is passed on; a chart of two points; frames without a GPU  *)
(* part, without a frame rate, without a frame time, and of very different *)
(* length.                                                                 *)
(***************************************************************************)
EXTENDS DataPath

Frame(gpu, fps, time) == [gpu |-> gpu, fps |-> fps, frame_time_ms |-> time]

MCFrames == <<Frame(FALSE, 0, 7), Frame(FALSE, 0, 16), Frame(TRUE, 144, 0), Frame(TRUE, 60, 480),
              Frame(TRUE, 0, 33), Frame(TRUE, 144, 0)>>

MCActions == <<"BOOST_TGP", "NO_ACTION", "REDUCE_LOAD", "BOOST_TGP", "BOOST_TGP", "NO_ACTION">>

=============================================================================
