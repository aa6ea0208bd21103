---------------------------- MODULE MCUsbTransport ----------------------------
(* Two bricks, two adapters at a time, two overlapping discover() calls, and *)
(* message counters that wrap after every second request.                    *)
EXTENDS UsbTransport
=============================================================================
