---------------------------- MODULE MCLprPipeline ----------------------------
(* TLC instance of LprPipeline.                                            *)
EXTENDS LprPipeline

CONSTANTS fast, slow, spare, disabled

\* The ensemble asks in registration order: the required recognizer last, after
\* optional ones may have failed, and a disabled one in between.
FourRecognizers == <<slow, disabled, spare, fast>>
==============================================================================
