----------------------------- MODULE HostMemory ------------------------------
(***************************************************************************)
(* What the host port promises: every access of the host takes effect at   *)
(* once, on the registers and on the memory behind them, and HSTDATA holds *)
(* the word the address points at as soon as the address is complete.      *)
(***************************************************************************)
EXTENDS HostRegisters

CONSTANTS Calls, ProcessorCalls, Initially, NoCall

VARIABLES
    adr, data, ctl, mem,    \* HSTADR, HSTDATA, the modes in HSTCTL, the memory
    stage, call,            \* where the access is, and what it is
    answer,                 \* what the port read for it
    got                     \* what the host got

vars == <<adr, data, ctl, mem, stage, call, answer, got>>

Init ==
    /\ adr = 0 /\ data = HostWord(0) /\ ctl \in Initially /\ mem = [w \in Words |-> HostWord(w)]
    /\ stage = "idle" /\ call = NoCall /\ answer = Nothing /\ got = Nothing

Begin ==
    /\ stage = "idle" /\ stage' = "called"
    /\ call' \in Calls /\ got' = Nothing
    /\ UNCHANGED <<adr, data, ctl, mem, answer>>

\* The registers after a write; a complete address brings its word.
Write ==
    /\ call.we /\ call.reg # "HSTDATA"
    /\ adr' = AdrMerged(adr, call)
    /\ ctl' = IF call.reg = "HSTCTL" /\ 1 \in call.be THEN call.value ELSE ctl
    /\ data' = IF LastAdrByte(ctl.lbl, call) THEN mem[adr'] ELSE data
    /\ UNCHANGED mem

WriteData ==
    /\ call.we /\ call.reg = "HSTDATA"
    /\ data' = Merged(data, call.be, call.value)
    /\ IF LastByte(ctl.lbl, call)
       THEN /\ mem' = [mem EXCEPT ![adr] = data']
            /\ adr' = IF ctl.incw THEN Next1(adr) ELSE adr
       ELSE UNCHANGED <<mem, adr>>
    /\ UNCHANGED ctl

\* The last byte of HSTDATA brings the next word.
Read ==
    /\ ~call.we
    /\ IF call.reg = "HSTDATA" /\ LastByte(ctl.lbl, call)
       THEN /\ adr' = IF ctl.incr THEN Next1(adr) ELSE adr
            /\ data' = mem[adr']
       ELSE UNCHANGED <<adr, data>>
    /\ UNCHANGED <<ctl, mem>>

Perform ==
    /\ stage = "called" /\ stage' = "answered"
    /\ Write \/ WriteData \/ Read
    /\ answer' = Shown(call.reg, adr, data, ctl)
    /\ UNCHANGED <<call, got>>

End ==
    /\ stage = "answered" /\ stage' = "idle"
    /\ got' = answer /\ call' = NoCall
    /\ UNCHANGED <<adr, data, ctl, mem, answer>>

\* The processor writes HSTADR or HSTDATA: no memory is read or written.
Processor ==
    /\ \E write \in ProcessorCalls :
          /\ adr' = AdrMerged(adr, write)
          /\ data' = IF write.reg = "HSTDATA" THEN HostWord(write.value) ELSE data
    /\ UNCHANGED <<ctl, mem, stage, call, answer, got>>

Next == Begin \/ Perform \/ End \/ Processor

Spec == Init /\ [][Next]_vars
=============================================================================
