---------------------------- MODULE HostRegisters ----------------------------
(***************************************************************************)
(* The host's four registers, as its accesses see them.  A word is a pair  *)
(* of bytes, 0 the lower; an access carries the byte enables `be', a set   *)
(* of bytes.  Of an address two bits are kept: the one in byte 0 of        *)
(* HSTADRL and the one in byte 1 of HSTADRH, so that a carry crosses the   *)
(* registers and both byte orders have their last byte.                    *)
(***************************************************************************)
EXTENDS Integers

Bytes == {0, 1}
Words == 0 .. 3
Next1(adr) == (adr + 1) % 4

HostWord(v) == [b \in Bytes |-> v]
Merged(word, be, v) == [b \in Bytes |-> IF b \in be THEN v ELSE word[b]]

\* The address after a host write of a bit to one of its registers.
AdrMerged(adr, call) ==
    IF call.reg = "HSTADRL" /\ 0 \in call.be THEN (2 * (adr \div 2)) + call.value
    ELSE IF call.reg = "HSTADRH" /\ 1 \in call.be THEN (2 * call.value) + (adr % 2)
    ELSE adr

IsAdr(call) == call.reg \in {"HSTADRL", "HSTADRH"}

\* HSTCTL.LBL: the lower byte of a word comes last.
LastByte(lbl, call) == (IF lbl THEN 0 ELSE 1) \in call.be
LastAdrByte(lbl, call) ==
    /\ call.reg = IF lbl THEN "HSTADRL" ELSE "HSTADRH"
    /\ LastByte(lbl, call)

\* What a read of a register returns.
Shown(reg, adr, data, ctl) ==
    CASE reg = "HSTADRL" -> <<reg, adr % 2>>
      [] reg = "HSTADRH" -> <<reg, adr \div 2>>
      [] reg = "HSTDATA" -> <<reg, data>>
      [] reg = "HSTCTL" -> <<reg, ctl>>
Nothing == <<>>
=============================================================================
