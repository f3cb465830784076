----------------------------- MODULE MCUartRing -----------------------------
(* UartRing for TLC: rings of three or four slots. *)
EXTENDS UartRing

CONSTANTS a, b

\* The greeting fills the ring with "\r\n" at its end
MCGreeting == <<a, CR>>

MCOthers == {a, b}

\* Typed characters, without the carriage return
MCInputsPlain == {a, b, Quit}
=============================================================================
