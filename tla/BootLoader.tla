----------------------------- MODULE BootLoader -----------------------------
(* One core's boot loader (apps/boot/boot.c): what it does with a request   *)
(* from the host.  A memory is a function from the word addresses written   *)
(* so far; addresses count words.                                           *)
EXTENDS Integers, Sequences, TLC

CONSTANT WordsPerReply  \* words in one reply to a load (4)

Req(cmd, args) == [cmd |-> cmd, args |-> args]

\* The loader's registers, the memories it writes, and what it has sent.
NewBoot(mem) == [addrReg |-> 0, lastDataStoreAddr |-> 0,
                 instrs |-> <<>>, mem |-> mem, sent |-> <<>>]

Read(mem, a) == IF a \in DOMAIN mem THEN mem[a] ELSE <<"unset">>

\* The words at the addresses from a on.
WriteAt(mem, a, words) ==
  [i \in a .. a + Len(words) - 1 |-> words[i - a + 1]] @@ mem

\* The replies to a load of n words from address a.
Replies(mem, a, n) ==
  [k \in 1 .. (n + WordsPerReply - 1) \div WordsPerReply |->
    [i \in 1 .. IF n - (k - 1) * WordsPerReply > WordsPerReply
                THEN WordsPerReply ELSE n - (k - 1) * WordsPerReply |->
      Read(mem, a + (k - 1) * WordsPerReply + i - 1)]]

\* Command dispatch.  Every access moves the address register on.
ExecWriteInstr(c, args) ==
  [c EXCEPT !.instrs = WriteAt(@, c.addrReg, args), !.addrReg = @ + Len(args)]

ExecStore(c, args) ==
  [c EXCEPT !.mem = WriteAt(@, c.addrReg, args), !.addrReg = @ + Len(args),
            !.lastDataStoreAddr = IF args = <<>> THEN @
                                  ELSE c.addrReg + Len(args) - 1]

ExecLoad(c, n) ==
  [c EXCEPT !.sent = @ \o Replies(c.mem, c.addrReg, n), !.addrReg = @ + n]

Exec(c, req) ==
  CASE req.cmd = "WriteInstr" -> ExecWriteInstr(c, req.args)
    [] req.cmd = "Store"      -> ExecStore(c, req.args)
    [] req.cmd = "Load"       -> ExecLoad(c, req.args[1])
    [] req.cmd = "SetAddr"    -> [c EXCEPT !.addrReg = req.args[1]]
=============================================================================
