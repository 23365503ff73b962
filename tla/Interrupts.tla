----------------------------- MODULE Interrupts -----------------------------
(***************************************************************************)
(* Interrupt dispatch (interrupt.c) over the two interrupt controllers     *)
(* (i8259a.c): handlers are registered and unregistered by one thread,     *)
(* whose steps the interrupts of registered lines may interrupt.  A        *)
(* handler runs with interrupts disabled.                                  *)
(***************************************************************************)
EXTENDS Integers

CONSTANTS Irq, Handler, None,
          Master             \* the lines of the first controller

ASSUME InterruptsAssumption == Master \subseteq Irq /\ None \notin Irq /\ None \notin Handler

VARIABLES
  handler,  \* the registered handler of a line, or None
  gate,     \* the lines that have an entry in the IDT
  count,    \* irqmask_count
  mask,     \* pic_irq_mask, the lines that are masked
  imr,      \* the lines masked in the controllers
  isr,      \* the line whose handler runs, or None
  pc, irq,  \* the step and the line of the registering thread
  tmp       \* what it has read from pic_irq_mask

vars == <<handler, gate, count, mask, imr, isr, pc, irq, tmp>>

Pc == {"idle", "unmask", "unmask_load", "unmask_store", "unmask_out",
       "mask_load", "mask_store", "mask_out", "clear"}

TypeOK ==
  /\ handler \in [Irq -> Handler \cup {None}]
  /\ gate \subseteq Irq
  /\ count \in [Irq -> Int]
  /\ mask \subseteq Irq /\ imr \subseteq Irq /\ tmp \subseteq Irq
  /\ isr \in Irq \cup {None}
  /\ pc \in Pc /\ irq \in Irq \cup {None}

(* setup_ints and pic_remap                                                *)
Init ==
  /\ handler = [i \in Irq |-> None]
  /\ gate = {}
  /\ count = [i \in Irq |-> 1]
  /\ mask = Irq /\ imr = Irq
  /\ isr = None
  /\ pc = "idle" /\ irq = None /\ tmp = {}

(* The lines of the controller of line i.                                  *)
Half(i) == IF i \in Master THEN Master ELSE Irq \ Master

(* out8 of the mask to the data port of one controller.                    *)
Out(i, m) == (imr \ Half(i)) \cup (m \cap Half(i))

-----------------------------------------------------------------------------
(* isr_common_handler as far as the handler: mask_irq and ack_irq.         *)
EnterIsr(i) ==
  /\ isr = None /\ i \notin imr
  /\ isr' = i
  /\ count' = [count EXCEPT ![i] = @ + 1]
  /\ IF count[i] = 0 THEN mask' = mask \cup {i} /\ imr' = Out(i, mask')
     ELSE UNCHANGED <<mask, imr>>
  /\ UNCHANGED <<handler, gate, pc, irq, tmp>>

(* The handler has returned: unmask_irq.                                   *)
LeaveIsr(i) ==
  /\ isr = i
  /\ isr' = None
  /\ count' = [count EXCEPT ![i] = @ - 1]
  /\ IF count[i] = 1 THEN mask' = mask \ {i} /\ imr' = Out(i, mask')
     ELSE UNCHANGED <<mask, imr>>
  /\ UNCHANGED <<handler, gate, pc, irq, tmp>>

Goto(from, to) == isr = None /\ pc = from /\ pc' = to

\* Mutant: the line is unmasked and its handler is not stored.
register_irq_handler_NoHandler(i, h) ==
  /\ Goto("idle", "unmask") /\ handler[i] = None
  /\ irq' = i
  /\ UNCHANGED <<handler, gate, count, mask, imr, isr, tmp>>

(* register_irq_handler, for a line that has none.                         *)
register_irq_handler(i, h) ==
  /\ Goto("idle", "unmask") /\ handler[i] = None
  /\ irq' = i
  /\ handler' = [handler EXCEPT ![i] = h]
  /\ gate' = gate \cup {i}
  /\ UNCHANGED <<count, mask, imr, isr, tmp>>

(* unmask_irq: the count, then the bit of pic_irq_mask is read, changed,   *)
(* written, and given to the controller.                                   *)
unmask_irq ==
  /\ Goto("unmask", IF count[irq] = 1 THEN "unmask_load" ELSE "idle")
  /\ count' = [count EXCEPT ![irq] = @ - 1]
  /\ UNCHANGED <<handler, gate, mask, imr, isr, irq, tmp>>

UnmaskLoad ==
  /\ Goto("unmask_load", "unmask_store")
  /\ tmp' = mask
  /\ UNCHANGED <<handler, gate, count, mask, imr, isr, irq>>

UnmaskStore ==
  /\ Goto("unmask_store", "unmask_out")
  /\ mask' = tmp \ {irq}
  /\ UNCHANGED <<handler, gate, count, imr, isr, irq, tmp>>

pic_unmask ==
  /\ Goto("unmask_out", "idle")
  /\ imr' = Out(irq, mask)
  /\ UNCHANGED <<handler, gate, count, mask, isr, irq, tmp>>

(* unregister_irq_handler, with the handler that is registered; mask_irq.  *)
unregister_irq_handler(i) ==
  /\ Goto("idle", IF count[i] = 0 THEN "mask_load" ELSE "clear") /\ handler[i] # None
  /\ irq' = i
  /\ count' = [count EXCEPT ![i] = @ + 1]
  /\ UNCHANGED <<handler, gate, mask, imr, isr, tmp>>

MaskLoad ==
  /\ Goto("mask_load", "mask_store")
  /\ tmp' = mask
  /\ UNCHANGED <<handler, gate, count, mask, imr, isr, irq>>

MaskStore ==
  /\ Goto("mask_store", "mask_out")
  /\ mask' = tmp \cup {irq}
  /\ UNCHANGED <<handler, gate, count, imr, isr, irq, tmp>>

pic_mask ==
  /\ Goto("mask_out", "clear")
  /\ imr' = Out(irq, mask)
  /\ UNCHANGED <<handler, gate, count, mask, isr, irq, tmp>>

ClearHandler ==
  /\ Goto("clear", "idle")
  /\ handler' = [handler EXCEPT ![irq] = None]
  /\ gate' = gate \ {irq}
  /\ UNCHANGED <<count, mask, imr, isr, irq, tmp>>

-----------------------------------------------------------------------------
Next ==
  \/ \E i \in Irq : EnterIsr(i) \/ LeaveIsr(i) \/ unregister_irq_handler(i)
  \/ \E i \in Irq, h \in Handler : register_irq_handler(i, h)
  \/ unmask_irq \/ UnmaskLoad \/ UnmaskStore \/ pic_unmask
  \/ MaskLoad \/ MaskStore \/ pic_mask \/ ClearHandler

Spec == Init /\ [][Next]_vars

-----------------------------------------------------------------------------
(* The holds on a line: no handler, the handler runs, the thread is at it. *)
Holds(i) ==
  (IF handler[i] = None \/ (irq = i /\ pc \in {"unmask", "mask_load", "mask_store", "mask_out", "clear"})
     THEN 1 ELSE 0)
    + (IF isr = i THEN 1 ELSE 0)

(* The mask agrees with the counts: isr_common_handler leaves every line   *)
(* as it found it, also in the middle of a change of the mask, and no line *)
(* that is open in the controller lacks its gate and handler.              *)
InterruptsExact ==
  /\ \A i \in Irq : count[i] = Holds(i)
  /\ \A i \in Irq \ imr : i \in gate /\ handler[i] # None
  /\ pc = "idle" => imr = {i \in Irq : count[i] > 0} /\ mask = imr

=============================================================================
