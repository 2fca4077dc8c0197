----------------------------- MODULE JitHelpers -----------------------------
(***************************************************************************)
(* compiler/interop.c and flags.c: the flag captures, the shared memory    *)
(* access helpers, and the calls into C.  A jsr to a helper is written as  *)
(* the helper's code; the rts of each of its paths goes on behind it.      *)
(* Cycles are counted at compile time: flush_cycles is a marker that       *)
(* compile_block resolves, in the order the code is emitted.               *)
(***************************************************************************)
EXTENDS Emitters

\* compiler.h: the registers
SCRATCH_0 == 0
SCRATCH_1 == 1
CYCLES == 2
NEXT_PC == 3
REG_A == 4
REG_BC == 5
REG_DE == 6
FLAGS == 7
A_SCRATCH == 0
REG_HL == 2
REG_SP == 3
CTX == 4
READ_PAGE == 5
WRITE_PAGE == 6
\* and the fields of the context that are data
JIT_CTX_DMG == 0
JIT_CTX_ROM_BANK == 17
JIT_CTX_DAA_STATE == 56
JIT_CTX_GB_SP == 72
JIT_CTX_STACK_IN_RAM == 76

flush_cycles == <<[i |-> "flush"]>>
\* emit_add_cycles(pending_cycles + n) without a reset
add_pending(n) == <<[i |-> "add_pending", n |-> n]>>
\* saved = pending_cycles; emit_add_cycles(pending_cycles + n);
\* pending_cycles = 0 ... pending_cycles = saved
take_pending(n) == <<[i |-> "take_pending", n |-> n]>>
restore_pending == <<[i |-> "restore_pending"]>>

compile_set_zc_flags == emit_move_sr_dn(FLAGS)

\* Seeded error: inc and dec take all of the 68000's flags, C as well.
compile_set_z_flag_and_c == emit_move_sr_dn(FLAGS)

compile_set_z_flag ==
    emit_move_sr_dn(NEXT_PC) \o emit_andi_b_dn(NEXT_PC, 4)
    \o emit_andi_b_dn(FLAGS, 1) \o emit_or_b_dn_dn(NEXT_PC, FLAGS)

compile_set_c_flag ==
    emit_move_sr_dn(NEXT_PC) \o emit_andi_b_dn(NEXT_PC, 1)
    \o emit_andi_b_dn(FLAGS, 4) \o emit_or_b_dn_dn(NEXT_PC, FLAGS)

compile_page_lookup(table_areg, addr_dreg, dest_areg) ==
    emit_rol_w_imm_dn(6, addr_dreg) \o emit_andi_w_dn(addr_dreg, 60)
    \o emit_movea_l_idx_an_an(0, table_areg, addr_dreg, dest_areg)

save_cycle_count == emit_move_l_dn_disp_an(CYCLES, JIT_CTX_READ_CYCLES, CTX)
reload_cycle_count == emit_move_l_disp_an_dn(JIT_CTX_READ_CYCLES, CTX, CYCLES)

\* push dmg, call the function in a context field, drop the arguments
call_with_dmg(fn, arg_bytes) ==
    emit_push_l_disp_an(JIT_CTX_DMG, CTX)
    \o emit_movea_l_disp_an_an(fn, CTX, A_SCRATCH) \o emit_jsr_ind_an(A_SCRATCH)
    \o emit_addq_l_an(7, arg_bytes + 4)

emit_c_read_call == save_cycle_count \o emit_push_w_dn(SCRATCH_1)
                    \o call_with_dmg(JIT_CTX_READ, 2) \o reload_cycle_count

emit_c_write_call_via(fn) ==
    save_cycle_count \o emit_push_b_dn(SCRATCH_0) \o emit_push_w_dn(SCRATCH_1)
    \o call_with_dmg(fn, 4) \o reload_cycle_count

emit_c_write_call == emit_c_write_call_via(JIT_CTX_WRITE)

hram_biased == AddL(hram_base, <<0, 128>>)

read8_slow == emit_c_read_call
read8 ==
    emit_move_w_dn_dn(SCRATCH_1, SCRATCH_0)
    \o compile_page_lookup(READ_PAGE, SCRATCH_0, A_SCRATCH)
    \o emit_move_l_an_dn(A_SCRATCH, SCRATCH_0)
    \o Fork("eq", emit_move_b_idx_an_dn(A_SCRATCH, SCRATCH_1, SCRATCH_0),
            emit_cmpi_w_imm_dn(65408, SCRATCH_1)
            \o Fork("cs", emit_movea_l_imm32(A_SCRATCH, hram_biased)
                          \o emit_move_b_idx_an_dn(A_SCRATCH, SCRATCH_1, SCRATCH_0),
                    read8_slow))
read8_hl == emit_move_w_an_dn(REG_HL, SCRATCH_1) \o read8

write8_slow == emit_c_write_call
write8_slow_a == emit_move_b_dn_dn(REG_A, SCRATCH_0) \o write8_slow
write8_hram == emit_movea_l_imm32(A_SCRATCH, hram_biased)
               \o emit_move_b_dn_idx_an(SCRATCH_0, A_SCRATCH, SCRATCH_1)
write8 ==
    emit_move_w_dn_dn(SCRATCH_1, NEXT_PC)
    \o compile_page_lookup(WRITE_PAGE, NEXT_PC, A_SCRATCH)
    \o emit_move_l_an_dn(A_SCRATCH, NEXT_PC)
    \o Fork("eq", emit_move_b_dn_idx_an(SCRATCH_0, A_SCRATCH, SCRATCH_1),
            emit_cmpi_w_imm_dn(65408, SCRATCH_1)
            \o Fork("cs", emit_cmpi_w_imm_dn(65535, SCRATCH_1)   \* $ffff is IE: to C
                          \o Fork("eq", write8_hram, write8_slow),
                    write8_slow))
write8_hl == emit_move_w_an_dn(REG_HL, SCRATCH_1) \o write8
write8_hl_a == emit_move_b_dn_dn(REG_A, SCRATCH_0) \o write8_hl
write8_a == emit_move_b_dn_dn(REG_A, SCRATCH_0) \o write8
write8_mbc_a == emit_move_b_dn_dn(REG_A, SCRATCH_0)
                \o emit_c_write_call_via(JIT_CTX_MBC_WRITE)

compile_slow_dmg_write_a == flush_cycles \o write8_slow_a
compile_call_dmg_write_a == flush_cycles \o write8_a
compile_call_dmg_write_mbc_a == flush_cycles \o write8_mbc_a
compile_call_dmg_write_hl_d0 == flush_cycles \o write8_hl
compile_call_dmg_write_hl_a == flush_cycles \o write8_hl_a
compile_call_dmg_write_hl_imm(val) == emit_move_b_dn(0, val) \o flush_cycles \o write8_hl
compile_slow_dmg_read == flush_cycles \o read8_slow
\* Seeded error: a read is emitted without counting the pending cycles first.
compile_call_dmg_read_unflushed == read8
compile_call_dmg_read == flush_cycles \o read8
compile_call_dmg_read_hl == flush_cycles \o read8_hl
compile_call_dmg_read_a == compile_call_dmg_read \o emit_move_b_dn_dn(0, REG_A)
compile_call_dmg_read_hl_a == compile_call_dmg_read_hl \o emit_move_b_dn_dn(0, REG_A)

compile_call_ei_di(enabled) ==
    flush_cycles \o save_cycle_count \o emit_moveq_dn(SCRATCH_1, enabled)
    \o emit_push_w_dn(SCRATCH_1) \o call_with_dmg(JIT_CTX_EI_DI, 2) \o reload_cycle_count

compile_slow_dmg_read16 ==
    flush_cycles \o save_cycle_count \o emit_push_w_dn(SCRATCH_1)
    \o call_with_dmg(JIT_CTX_READ16, 2) \o reload_cycle_count

\* Seeded error: the last byte of a page is not taken for the page's end.
crosses_page_late == emit_move_w_dn_dn(SCRATCH_1, SCRATCH_0) \o emit_andi_w_dn(SCRATCH_0, 4095)
                     \o emit_cmpi_w_imm_dn(4096, SCRATCH_0)
\* Z is set when the second byte lies in the next page
crosses_page == emit_move_w_dn_dn(SCRATCH_1, SCRATCH_0) \o emit_andi_w_dn(SCRATCH_0, 4095)
                \o emit_cmpi_w_imm_dn(4095, SCRATCH_0)
\* Z is set when the page is not mapped
mapped_page(table) ==
    emit_move_w_dn_dn(SCRATCH_1, SCRATCH_0) \o compile_page_lookup(table, SCRATCH_0, A_SCRATCH)
    \o emit_move_l_an_dn(A_SCRATCH, SCRATCH_0)
next_address == emit_move_w_dn_dn(SCRATCH_1, SCRATCH_0) \o emit_addq_w_dn(SCRATCH_0, 1)

compile_call_dmg_read16 ==
    LET fast == emit_move_b_idx_an_dn(A_SCRATCH, SCRATCH_1, NEXT_PC) \o next_address
                \o emit_move_b_idx_an_dn(A_SCRATCH, SCRATCH_0, SCRATCH_0)
                \o emit_lsl_w_imm_dn(8, SCRATCH_0) \o emit_move_b_dn_dn(NEXT_PC, SCRATCH_0)
        slow == compile_slow_dmg_read16
    IN  flush_cycles \o crosses_page
        \o Fork("eq", mapped_page(READ_PAGE) \o Fork("eq", fast, slow), slow)

compile_slow_dmg_write16 ==
    flush_cycles \o save_cycle_count \o emit_push_w_dn(SCRATCH_0) \o emit_push_w_dn(SCRATCH_1)
    \o call_with_dmg(JIT_CTX_WRITE16, 4) \o reload_cycle_count

compile_call_dmg_write16_d0 ==
    LET fast == emit_move_b_dn_idx_an(NEXT_PC, A_SCRATCH, SCRATCH_1)
                \o emit_lsr_w_imm_dn(8, NEXT_PC) \o next_address
                \o emit_move_b_dn_idx_an(NEXT_PC, A_SCRATCH, SCRATCH_0)
        slow == emit_move_w_dn_dn(NEXT_PC, SCRATCH_0) \o compile_slow_dmg_write16
    IN  flush_cycles \o emit_move_w_dn_dn(SCRATCH_0, NEXT_PC) \o crosses_page
        \o Fork("eq", mapped_page(WRITE_PAGE) \o Fork("eq", fast, slow), slow)
=============================================================================
