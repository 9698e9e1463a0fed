------------------------------ MODULE LineFill ------------------------------
(***************************************************************************)
(* The miss state machine of yamp32_icache.v: it clears the tags at boot,  *)
(* and on a miss requests one burst and counts the words acknowledged,     *)
(* withdrawing the request in the second half of the line.                 *)
(***************************************************************************)
EXTENDS Integers

CONSTANTS
  LineLen,  \* words of a line, 2^(P_LINE-2)
  Sets      \* sets cleared at boot, 2^P_SETS

ASSUME FillAssumption == LineLen \in Nat \ {0} /\ LineLen % 2 = 0 /\ Sets \in Nat \ {0}

VARIABLES
  status_r, clear_cnt,      \* the FSM and its boot counter
  nl_rd_r, nl_baddr_r,      \* burst request to the BIU
  slow_line_adr_cnt         \* words of the line received, modulo LineLen

fill_vars == <<status_r, clear_cnt, nl_rd_r, nl_baddr_r, slow_line_adr_cnt>>

ch_idle == status_r = "IDLE"
line_adr_cnt_msb == slow_line_adr_cnt >= LineLen \div 2
br_req == IF nl_rd_r THEN {nl_baddr_r} ELSE {}

\* The counter runs with the acknowledgements, whatever the FSM is doing.
CountAck(ack) ==
  slow_line_adr_cnt' = IF ack THEN (slow_line_adr_cnt + 1) % LineLen
                              ELSE slow_line_adr_cnt

Boot == /\ status_r = "BOOT"
        /\ clear_cnt' = (clear_cnt - 1) % Sets
        /\ status_r' = IF clear_cnt = 0 THEN "IDLE" ELSE "BOOT"
        /\ UNCHANGED <<nl_rd_r, nl_baddr_r>>

\* base is the line address of the fetch in the tag stage, hit or not.
Idle(base, miss) == /\ ch_idle
                    /\ nl_baddr_r' = base
                    /\ nl_rd_r' = (nl_rd_r \/ miss)
                    /\ status_r' = IF miss THEN "READ_PENDING_1" ELSE "IDLE"
                    /\ UNCHANGED clear_cnt

Pending1 == /\ status_r = "READ_PENDING_1"
            /\ status_r' = IF line_adr_cnt_msb THEN "READ_PENDING_2"
                                               ELSE "READ_PENDING_1"
            /\ UNCHANGED <<clear_cnt, nl_rd_r, nl_baddr_r>>

\* The request withdrawn only when the line is complete.
Pending2Late == /\ status_r = "READ_PENDING_2"
                /\ nl_rd_r' = line_adr_cnt_msb
                /\ status_r' = IF line_adr_cnt_msb THEN "READ_PENDING_2" ELSE "IDLE"
                /\ UNCHANGED <<clear_cnt, nl_baddr_r>>

Pending2 == /\ status_r = "READ_PENDING_2"
            /\ nl_rd_r' = FALSE
            /\ status_r' = IF line_adr_cnt_msb THEN "READ_PENDING_2" ELSE "IDLE"
            /\ UNCHANGED <<clear_cnt, nl_baddr_r>>

FillClock(base, miss, ack) == /\ CountAck(ack)
                              /\ Boot \/ Idle(base, miss) \/ Pending1 \/ Pending2

\* nl_rd_r and nl_baddr_r have no reset.
FillReset == /\ status_r' = "BOOT"
             /\ clear_cnt' = Sets - 1
             /\ slow_line_adr_cnt' = 0
             /\ UNCHANGED <<nl_rd_r, nl_baddr_r>>

FillInit(first, base) == /\ status_r = first
                         /\ clear_cnt = Sets - 1
                         /\ slow_line_adr_cnt = 0
                         /\ nl_rd_r = FALSE
                         /\ nl_baddr_r = base
=============================================================================
