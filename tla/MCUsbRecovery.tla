---------------------------- MODULE MCUsbRecovery ----------------------------
(* UsbRecovery with the wait before a restart growing by a tick at each one.  *)
EXTENDS UsbRecovery

MCDelay == [k \in 0..MaxRestarts-1 |-> k]

==============================================================================
