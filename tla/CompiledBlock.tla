--------------------------- MODULE CompiledBlock ---------------------------
(***************************************************************************)
(* compiler/compiler.c, stack.c, mem_loads.c and branches.c: the code of   *)
(* the remaining GB instructions, and compile_block, which puts a block    *)
(* together and counts its cycles.  STOP, HALT and the polling loops that  *)
(* compile to waits are left to WaitLoops.tla: a program here has none.    *)
(***************************************************************************)
EXTENDS CompiledOps

CONSTANTS BlockBytes,   \* 256 in compile_block: GB bytes of one block
          BlockCode     \* sizeof(block->code) - 200, in 68000 instructions

imm16(m, src, ptr) == READ_BYTE(m, src, ptr) + 256 * READ_BYTE(m, src, ptr + 1)

join(pair, dreg) == emit_move_l_dn_dn(pair, dreg) \o emit_lsr_l_imm_dn(8, dreg)
                    \o emit_move_b_dn_dn(pair, dreg)
compile_join_bc(dreg) == join(REG_BC, dreg)
compile_join_de(dreg) == join(REG_DE, dreg)

compile_ld_imm16_split(reg, n) ==
    IF n < 128 THEN emit_moveq_dn(reg, n) ELSE emit_move_l_dn(reg, <<Hi8(n), Lo8(n)>>)
compile_ld_imm16_contiguous(reg, n) == emit_movea_w_imm16(reg, n)

inc_pair(pair) == emit_ext_w_dn(pair) \o emit_addq_l_dn(pair, 1)
dec_pair(pair) == emit_ext_w_dn(pair) \o emit_subq_l_dn(pair, 1)
inc_sp == emit_addq_l_an(REG_SP, 1) \o emit_addq_w_disp_an(1, JIT_CTX_GB_SP, CTX)
dec_sp == emit_subq_l_an(REG_SP, 1) \o emit_subq_w_disp_an(1, JIT_CTX_GB_SP, CTX)

\* HL in D0, `second` leaves the other operand in D1
add_hl(second, reg) ==
    emit_move_w_an_dn(REG_HL, SCRATCH_0) \o second \o emit_add_w_dn_dn(reg, SCRATCH_0)
    \o emit_movea_w_dn_an(SCRATCH_0, REG_HL) \o compile_set_c_flag
compile_add_hl(op) ==
    CASE op = 9  -> add_hl(compile_join_bc(1), SCRATCH_1)
      [] op = 25 -> add_hl(compile_join_de(1), SCRATCH_1)
      [] op = 41 -> add_hl(<<>>, SCRATCH_0)
      [] op = 57 -> add_hl(emit_move_w_disp_an_dn(JIT_CTX_GB_SP, CTX, SCRATCH_1), SCRATCH_1)

z_always_0 == emit_move_sr_dn(FLAGS) \o emit_andi_b_dn(FLAGS, 251)
rlca == emit_rol_b_imm(1, REG_A) \o z_always_0
rrca == emit_ror_b_imm(1, REG_A) \o z_always_0
old_carry == emit_move_b_dn_dn(FLAGS, SCRATCH_1) \o emit_andi_b_dn(SCRATCH_1, 1)
rla == old_carry \o emit_lsl_b_imm_dn(1, REG_A) \o z_always_0 \o emit_or_b_dn_dn(SCRATCH_1, REG_A)
rra == old_carry \o emit_ror_b_imm(1, SCRATCH_1) \o emit_lsr_b_imm_dn(1, REG_A)
       \o z_always_0 \o emit_or_b_dn_dn(SCRATCH_1, REG_A)

ld_high_imm(pair, n) == swapped(pair, emit_move_b_dn(pair, n))
ld_h_imm(n) == put_h(emit_move_b_dn(SCRATCH_1, n))
ld_l_imm(n) == put_l(emit_move_b_dn(SCRATCH_1, n))

-----------------------------------------------------------------------------
(* stack.c: with stack_in_ram set, A3 is a host pointer.                   *)

stack_in_ram(flag) == emit_moveq_dn(SCRATCH_1, flag)
                      \o emit_move_l_dn_disp_an(SCRATCH_1, JIT_CTX_STACK_IN_RAM, CTX)

\* Seeded error: an SP outside RAM does not clear stack_in_ram, and every
\* SP in WRAM is taken for one in bank 1.
compile_ld_sp_imm16_keeps_flag(gb_sp) ==
    emit_move_w_dn(SCRATCH_1, gb_sp) \o emit_move_w_dn_disp_an(SCRATCH_1, JIT_CTX_GB_SP, CTX)
    \o IF gb_sp \in 49154..53247 \/ gb_sp \in 53249..57344
       THEN emit_movea_l_imm32(REG_SP, AddL(wram_base, <<0, gb_sp - 49152>>)) \o stack_in_ram(1)
       ELSE emit_movea_w_imm16(REG_SP, gb_sp)

compile_ld_sp_imm16(gb_sp) ==
    LET fixed(base, from) == emit_movea_l_imm32(REG_SP, AddL(base, <<0, gb_sp - from>>))
                             \o stack_in_ram(1)
    IN  emit_move_w_dn(SCRATCH_1, gb_sp) \o emit_move_w_dn_disp_an(SCRATCH_1, JIT_CTX_GB_SP, CTX)
        \o IF gb_sp >= 49154 /\ gb_sp < 53248 THEN fixed(wram_base, 49152)
           ELSE IF gb_sp > 53248 /\ gb_sp <= 57344
           THEN emit_move_w_dn(SCRATCH_0, 4 * ((gb_sp - 1) \div 4096))
                \o emit_movea_l_idx_an_an(0, READ_PAGE, SCRATCH_0, REG_SP)
                \o emit_lea_disp_an_an(Signed16(gb_sp), REG_SP, REG_SP) \o stack_in_ram(1)
           ELSE IF gb_sp >= 65410 /\ gb_sp <= 65534 THEN fixed(hram_base, 65408)
           ELSE emit_movea_w_imm16(REG_SP, gb_sp) \o stack_in_ram(0)

compile_slow_pop_to_d1 ==
    emit_move_w_disp_an_dn(JIT_CTX_GB_SP, CTX, SCRATCH_1) \o compile_call_dmg_read16
    \o emit_addq_w_disp_an(2, JIT_CTX_GB_SP, CTX) \o emit_move_w_dn_dn(SCRATCH_0, SCRATCH_1)

compile_slow_push_d0 ==
    emit_subq_w_disp_an(2, JIT_CTX_GB_SP, CTX)
    \o emit_move_w_disp_an_dn(JIT_CTX_GB_SP, CTX, SCRATCH_1) \o compile_call_dmg_write16_d0

\* flushed before the split so both paths see the same D2
guarded(fast, slow) ==
    flush_cycles \o emit_tst_l_disp_an(JIT_CTX_STACK_IN_RAM, CTX) \o Fork("eq", fast, slow)
push(store, slow) ==
    guarded(emit_subq_w_an(REG_SP, 2) \o emit_subq_w_disp_an(2, JIT_CTX_GB_SP, CTX) \o store,
            slow \o compile_slow_push_d0)
pop(load, slow) ==
    guarded(load \o emit_addq_w_an(REG_SP, 2) \o emit_addq_w_disp_an(2, JIT_CTX_GB_SP, CTX),
            compile_slow_pop_to_d1 \o slow)

compile_push_imm16(value) ==
    push(emit_move_b_imm_ind_an(Lo8(value), REG_SP) \o emit_move_b_imm_disp_an(Hi8(value), 1, REG_SP),
         emit_move_w_dn(SCRATCH_0, value))

compile_pop_pc ==
    pop(emit_moveq_dn(NEXT_PC, 0) \o emit_move_b_disp_an_dn(1, REG_SP, NEXT_PC)
        \o emit_rol_w_8(NEXT_PC) \o emit_move_b_ind_an_dn(REG_SP, NEXT_PC),
        emit_moveq_dn(NEXT_PC, 0) \o emit_move_w_dn_dn(SCRATCH_1, NEXT_PC))

ld_u16_sp(addr) ==
    emit_move_w_disp_an_dn(JIT_CTX_GB_SP, CTX, SCRATCH_0) \o emit_move_w_dn(SCRATCH_1, addr)
    \o compile_call_dmg_write16_d0

push_pair(pair) ==
    push(swapped(pair, emit_move_b_dn_disp_an(pair, 1, REG_SP)) \o emit_move_b_dn_ind_an(pair, REG_SP),
         join(pair, SCRATCH_0))
push_bc == push_pair(REG_BC)
push_de == push_pair(REG_DE)
push_hl ==
    push(l_in_d1 \o emit_move_b_dn_ind_an(SCRATCH_1, REG_SP) \o emit_rol_w_8(SCRATCH_1)
         \o emit_move_b_dn_disp_an(SCRATCH_1, 1, REG_SP),
         emit_move_w_an_dn(REG_HL, SCRATCH_0))
push_af ==
    push(emit_move_b_dn_ind_an(FLAGS, REG_SP) \o emit_move_b_dn_disp_an(REG_A, 1, REG_SP),
         emit_move_b_dn_dn(REG_A, SCRATCH_0) \o emit_rol_w_8(SCRATCH_0)
         \o emit_move_b_dn_dn(FLAGS, SCRATCH_0))

pop_pair(pair) ==
    pop(swapped(pair, emit_move_b_disp_an_dn(1, REG_SP, pair)) \o emit_move_b_ind_an_dn(REG_SP, pair),
        emit_move_b_dn_dn(SCRATCH_1, pair) \o emit_rol_w_8(SCRATCH_1) \o into_high(pair, SCRATCH_1))
pop_bc == pop_pair(REG_BC)
pop_de == pop_pair(REG_DE)
pop_hl == pop(emit_move_b_disp_an_dn(1, REG_SP, SCRATCH_1) \o emit_rol_w_8(SCRATCH_1)
              \o emit_move_b_ind_an_dn(REG_SP, SCRATCH_1), <<>>)
          \o d1_to_hl
pop_af == pop(emit_move_b_disp_an_dn(1, REG_SP, REG_A) \o emit_move_b_ind_an_dn(REG_SP, FLAGS),
              emit_move_b_dn_dn(SCRATCH_1, FLAGS) \o emit_rol_w_8(SCRATCH_1)
              \o emit_move_b_dn_dn(SCRATCH_1, REG_A))

add_sp(offset) ==
    IF offset = 0 THEN <<>>
    ELSE emit_lea_disp_an_an(offset, REG_SP, REG_SP)
         \o IF offset \in 1..8 THEN emit_addq_w_disp_an(offset, JIT_CTX_GB_SP, CTX)
            ELSE IF offset \in -8..-1 THEN emit_subq_w_disp_an(-offset, JIT_CTX_GB_SP, CTX)
            ELSE emit_addi_w_disp_an(offset, JIT_CTX_GB_SP, CTX)

ld_hl_sp(offset) ==
    emit_move_w_disp_an_dn(JIT_CTX_GB_SP, CTX, SCRATCH_0)
    \o (IF offset \in 1..8 THEN emit_addq_w_dn(SCRATCH_0, offset)
        ELSE IF offset \in -8..-1 THEN emit_subq_w_dn(SCRATCH_0, -offset)
        ELSE IF offset # 0 THEN emit_move_w_dn(SCRATCH_1, Wrap16(offset))
                                \o emit_add_w_dn_dn(SCRATCH_1, SCRATCH_0)
        ELSE <<>>)
    \o emit_movea_w_dn_an(SCRATCH_0, REG_HL)

ld_sp_hl ==
    LET offset_from(lo, span) == l_in_d1 \o emit_subi_w_dn(lo, SCRATCH_1)
                                 \o emit_cmpi_w_imm_dn(span, SCRATCH_1)
        in_wram == l_in_d1 \o emit_move_w_dn_dn(SCRATCH_1, SCRATCH_0) \o emit_subq_w_dn(SCRATCH_0, 1)
                   \o compile_page_lookup(READ_PAGE, SCRATCH_0, REG_SP)
                   \o emit_adda_w_dn_an(SCRATCH_1, REG_SP) \o stack_in_ram(1)
        in_hram == emit_moveq_dn(SCRATCH_1, 0) \o l_in_d1
                   \o emit_movea_l_imm32(REG_SP, SubL(hram_base, <<0, 65408>>))
                   \o emit_adda_l_dn_an(SCRATCH_1, REG_SP) \o stack_in_ram(1)
        slow    == emit_movea_w_an_an(REG_HL, REG_SP) \o stack_in_ram(0)
        not_wram == offset_from(65410, 124) \o Fork("hi", in_hram, slow)
    IN  l_in_d1 \o emit_move_w_dn_disp_an(SCRATCH_1, JIT_CTX_GB_SP, CTX)
        \o offset_from(49154, 4094)
        \o Fork("eq", emit_cmpi_w_imm_dn(8190, SCRATCH_1) \o Fork("hi", in_wram, not_wram), slow)

-----------------------------------------------------------------------------
(* mem_loads.c                                                             *)

hram_at(addr) == AddL(hram_base, <<0, addr - 128>>)

compile_ldh_u8_a(addr) ==
    IF addr >= 128 /\ addr # 255 THEN emit_move_b_dn_abs32(REG_A, hram_at(addr))
    ELSE emit_move_w_dn(SCRATCH_1, 65280 + addr) \o compile_slow_dmg_write_a

compile_ldh_a_u8_direct(addr) ==
    IF addr = 0 THEN emit_move_b_abs32_dn(joyp_ptr, REG_A)
    ELSE IF addr >= 128 THEN emit_move_b_abs32_dn(hram_at(addr), REG_A)
    ELSE emit_move_w_dn(SCRATCH_1, 65280 + addr) \o compile_slow_dmg_read
         \o emit_move_b_dn_dn(0, REG_A)

io_address_c == emit_move_w_dn(SCRATCH_1, 65280) \o emit_or_b_dn_dn(REG_BC, SCRATCH_1)
compile_ldh_c_a == io_address_c \o compile_call_dmg_write_a
compile_ldh_a_c == io_address_c \o compile_call_dmg_read_a

(* A write of the ROM bank register is skipped when A holds the bank that  *)
(* is mapped.                                                              *)
compile_ld_u16_a(addr) ==
    LET to_mbc == emit_move_w_dn(SCRATCH_1, addr) \o compile_call_dmg_write_mbc_a
    IN  IF addr >= 65408 /\ addr # 65535 THEN emit_move_b_dn_abs32(REG_A, hram_at(Lo8(addr)))
        ELSE IF addr < 32768
        THEN flush_cycles
             \o IF addr \in bank_reg
                THEN emit_cmp_b_disp_an_dn(JIT_CTX_ROM_BANK, CTX, REG_A) \o patch_branch("eq", to_mbc)
                ELSE to_mbc
        ELSE emit_move_w_dn(SCRATCH_1, addr) \o compile_call_dmg_write_a

(* A byte of ROM is read when the block is compiled, of the switchable     *)
(* bank only by a block of that bank.                                      *)
compile_ld_a_u16(m, src, addr) ==
    IF addr < 16384 \/ (addr < 32768 /\ src \in 16384..32767)
    THEN emit_moveq_dn(REG_A, dmg_read(m, addr))
    ELSE IF addr = 65280 THEN emit_move_b_abs32_dn(joyp_ptr, REG_A)
    ELSE IF addr >= 65408 THEN emit_move_b_abs32_dn(hram_at(Lo8(addr)), REG_A)
    ELSE IF addr >= 49152 /\ addr < 53248
    THEN emit_move_b_abs32_dn(AddL(wram_base, <<0, addr - 49152>>), REG_A)
    ELSE IF addr \in 32768..40959 \/ addr \in 53248..61439
    THEN emit_move_w_dn(SCRATCH_0, 4 * (addr \div 4096))
         \o emit_movea_l_idx_an_an(0, READ_PAGE, SCRATCH_0, A_SCRATCH)
         \o emit_move_b_disp_an_dn(Signed16(addr), A_SCRATCH, REG_A)
    ELSE emit_move_w_dn(SCRATCH_1, addr) \o compile_call_dmg_read_a

-----------------------------------------------------------------------------
(* branches.c.  `next` is the offset behind the instruction.               *)

exit_to(pc) == emit_moveq_dn(NEXT_PC, 0) \o emit_move_w_dn(NEXT_PC, pc) \o emit_block_exit(pc)
compare_wake_limit == emit_cmp_l_disp_an_dn(JIT_CTX_WAKE_LIMIT, CTX, CYCLES)

in_block(target, next) == target >= 0 /\ target < next - 2

compile_jr(src, next, disp) ==
    LET target == next + disp  pc == Wrap16(src + target)
    IN  flush_cycles
        \o IF in_block(target, next)
           THEN compare_wake_limit \o patch_branch("cs", exit_to(pc)) \o emit_bra_w(target)
           ELSE exit_to(pc)

\* the flag is tested in D7: btst leaves 68000 Z set when it is clear
test_flag(bit) == emit_btst_imm_dn(bit, FLAGS)
unless(if_set) == IF if_set THEN "eq" ELSE "ne"
when(if_set) == IF if_set THEN "ne" ELSE "eq"

compile_jr_cond(src, next, disp, bit, if_set) ==
    LET target == next + disp  pc == Wrap16(src + target)
        check_cycles == add_pending(4) \o compare_wake_limit \o emit_bcs_w(target) \o exit_to(pc)
    IN  test_flag(bit)
        \o IF in_block(target, next)
           THEN Branch(when(if_set), 1) \o patch_branch("t", check_cycles)
           ELSE patch_branch(unless(if_set), add_pending(4) \o exit_to(pc))

compile_jp_cond(target, bit, if_set) ==
    test_flag(bit) \o patch_branch(unless(if_set), add_pending(4) \o exit_to(target))

compile_call_imm16(target, ret_addr) ==
    flush_cycles \o compile_push_imm16(ret_addr) \o exit_to(target)

\* Seeded error: the cycles counted on the taken path are not pending any
\* more on the other one either.
compile_call_cond_drops_pending(target, ret_addr, bit, if_set) ==
    test_flag(bit)
    \o patch_branch(unless(if_set), take_pending(12) \o compile_push_imm16(ret_addr)
                                    \o exit_to(target))

compile_call_cond(target, ret_addr, bit, if_set) ==
    test_flag(bit)
    \o patch_branch(unless(if_set), take_pending(12) \o compile_push_imm16(ret_addr)
                                    \o exit_to(target) \o restore_pending)

compile_ret == compile_pop_pc \o emit_dispatch_jump

compile_ret_cond(bit, if_set) ==
    test_flag(bit)
    \o patch_branch(unless(if_set), take_pending(12) \o compile_pop_pc \o emit_dispatch_jump
                                    \o restore_pending)

compile_rst_n(target, ret_addr) ==
    compile_push_imm16(ret_addr) \o emit_moveq_dn(NEXT_PC, target) \o emit_block_exit(target)

jp_hl == flush_cycles \o emit_moveq_dn(NEXT_PC, 0) \o emit_move_w_an_dn(REG_HL, NEXT_PC)
         \o emit_dispatch_jump

-----------------------------------------------------------------------------
(* compiler.c: cycles of an instruction, not taken, from instructions.c.   *)

\* 16 opcodes a row, 0 for the invalid ones
op_cycles == <<
     4,12, 8, 8, 4, 4, 8, 4,20, 8, 8, 8, 4, 4, 8, 4,
     4,12, 8, 8, 4, 4, 8, 4,12, 8, 8, 8, 4, 4, 8, 4,
     8,12, 8, 8, 4, 4, 8, 4, 8, 8, 8, 8, 4, 4, 8, 4,
     8,12, 8, 8,12,12,12, 4, 8, 8, 8, 8, 4, 4, 8, 4,
     4, 4, 4, 4, 4, 4, 8, 4, 4, 4, 4, 4, 4, 4, 8, 4,
     4, 4, 4, 4, 4, 4, 8, 4, 4, 4, 4, 4, 4, 4, 8, 4,
     4, 4, 4, 4, 4, 4, 8, 4, 4, 4, 4, 4, 4, 4, 8, 4,
     8, 8, 8, 8, 8, 8, 4, 8, 4, 4, 4, 4, 4, 4, 8, 4,
     4, 4, 4, 4, 4, 4, 8, 4, 4, 4, 4, 4, 4, 4, 8, 4,
     4, 4, 4, 4, 4, 4, 8, 4, 4, 4, 4, 4, 4, 4, 8, 4,
     4, 4, 4, 4, 4, 4, 8, 4, 4, 4, 4, 4, 4, 4, 8, 4,
     4, 4, 4, 4, 4, 4, 8, 4, 4, 4, 4, 4, 4, 4, 8, 4,
     8,12,12,16,12,16, 8,16, 8,16,12, 4,12,24, 8,16,
     8,12,12, 0,12,16, 8,16, 8,16,12, 0,12, 0, 8,16,
    12,12, 8, 0, 0,16, 8,16,16, 4,16, 0, 0, 0, 8,16,
    12,12, 8, 4, 0,16, 8,16,12, 8,16, 4, 0, 0, 8,16 >>
cb_cycles(cb_op) == IF cb_op % 8 # 6 THEN 8 ELSE IF cb_op \in 64..127 THEN 12 ELSE 16
instruction_cycles(op, n) == IF op = 203 THEN cb_cycles(n) ELSE op_cycles[op + 1]

Invalid == {211, 219, 221, 227, 228, 235, 236, 237, 244, 252, 253}
Ends == {24, 195, 199, 201, 205, 207, 215, 217, 223, 231, 233, 239, 247, 255} \union Invalid
unknown_opcode == flush_cycles \o emit_move_l_dn(NEXT_PC, <<65535, 65535>>) \o emit_dispatch_jump

\* condition of a conditional branch, from bits 3 and 4 of its opcode
FlagBit(op) == IF op \in {32, 40, 192, 194, 196, 200, 202, 204} THEN 2 ELSE 0
IfSet(op) == (op \div 8) % 2 = 1

\* the switch of compile_block on an opcode at offset ptr - 1
compile_insn(m, src, op, ptr) ==
    LET n == READ_BYTE(m, src, ptr)
        nn == imm16(m, src, ptr)
        next == ptr + insn_length(op) - 1
        here == Wrap16(src + next)
        cond == FlagBit(op)
    IN  CASE op = 0 -> <<>>
          [] op = 2 -> compile_join_bc(1) \o compile_call_dmg_write_a
          [] op = 10 -> compile_join_bc(1) \o compile_call_dmg_read_a
          [] op = 18 -> compile_join_de(1) \o compile_call_dmg_write_a
          [] op = 26 -> compile_join_de(1) \o compile_call_dmg_read_a
          [] op = 1 -> compile_ld_imm16_split(REG_BC, nn)
          [] op = 17 -> compile_ld_imm16_split(REG_DE, nn)
          [] op = 33 -> compile_ld_imm16_contiguous(REG_HL, nn)
          [] op = 49 -> compile_ld_sp_imm16(nn)
          [] op = 34 -> compile_call_dmg_write_hl_a \o emit_addq_w_an(REG_HL, 1)
          [] op = 50 -> compile_call_dmg_write_hl_a \o emit_subq_w_an(REG_HL, 1)
          [] op = 42 -> compile_call_dmg_read_hl_a \o emit_addq_w_an(REG_HL, 1)
          [] op = 58 -> compile_call_dmg_read_hl_a \o emit_subq_w_an(REG_HL, 1)
          [] op = 35 -> emit_addq_w_an(REG_HL, 1)
          [] op = 43 -> emit_subq_w_an(REG_HL, 1)
          [] op = 51 -> inc_sp
          [] op = 59 -> dec_sp
          [] op = 3 -> inc_pair(REG_BC)
          [] op = 11 -> dec_pair(REG_BC)
          [] op = 19 -> inc_pair(REG_DE)
          [] op = 27 -> dec_pair(REG_DE)
          [] op = 6 -> ld_high_imm(REG_BC, n)
          [] op = 22 -> ld_high_imm(REG_DE, n)
          [] op = 14 -> emit_move_b_dn(REG_BC, n)
          [] op = 30 -> emit_move_b_dn(REG_DE, n)
          [] op = 38 -> ld_h_imm(n)
          [] op = 46 -> ld_l_imm(n)
          [] op = 62 -> emit_moveq_dn(REG_A, n)
          [] op = 54 -> compile_call_dmg_write_hl_imm(n)
          [] op = 7 -> rlca
          [] op = 15 -> rrca
          [] op = 23 -> rla
          [] op = 31 -> rra
          [] op \in {9, 25, 41, 57} -> compile_add_hl(op)
          [] op = 24 -> compile_jr(src, next, Signed8(n))
          [] op \in {32, 40, 48, 56} -> compile_jr_cond(src, next, Signed8(n), cond, IfSet(op))
          [] op = 203 -> compile_cb_insn(n)
          [] op \in {192, 200, 208, 216} -> compile_ret_cond(cond, IfSet(op))
          [] op \in {194, 202, 210, 218} -> compile_jp_cond(nn, cond, IfSet(op))
          [] op \in {196, 204, 212, 220} -> compile_call_cond(nn, here, cond, IfSet(op))
          [] op = 195 -> flush_cycles \o exit_to(nn)
          [] op = 201 -> compile_ret
          [] op = 205 -> compile_call_imm16(nn, here)
          [] op = 233 -> jp_hl
          [] op \in {199, 207, 215, 223, 231, 239, 247, 255} -> compile_rst_n(op - 199, here)
          [] op = 217 -> compile_call_ei_di(1) \o compile_ret
          [] op = 243 -> compile_call_ei_di(0)
          [] op = 251 -> compile_call_ei_di(1)
          [] op = 224 -> compile_ldh_u8_a(n)
          [] op = 240 -> compile_ldh_a_u8_direct(n)
          [] op = 226 -> compile_ldh_c_a
          [] op = 242 -> compile_ldh_a_c
          [] op = 234 -> compile_ld_u16_a(nn)
          [] op = 250 -> compile_ld_a_u16(m, src, nn)
          [] op = 8 -> ld_u16_sp(nn)
          [] op = 197 -> push_bc
          [] op = 213 -> push_de
          [] op = 229 -> push_hl
          [] op = 245 -> push_af
          [] op = 193 -> pop_bc
          [] op = 209 -> pop_de
          [] op = 225 -> pop_hl
          [] op = 241 -> pop_af
          [] op = 232 -> add_sp(Signed8(n))
          [] op = 248 -> ld_hl_sp(Signed8(n))
          [] op = 249 -> ld_sp_hl
          [] op \in 64..127 -> compile_reg_load(op)
          [] op \in Invalid -> unknown_opcode
          [] OTHER -> compile_alu_op(op, m, src, ptr)

\* flush_cycles, emit_add_cycles(pending_cycles + n) and the saving around a
\* taken path, in the order of the code: the code and what is pending after it
resolve(code, pending) ==
    LET after[k \in 0..Len(code)] ==
            IF k = 0 THEN [code |-> <<>>, pending |-> pending, saved |-> 0]
            ELSE LET s == after[k - 1]  ins == code[k]
                     add(n) == [s EXCEPT !.code = @ \o emit_add_cycles(s.pending + n)]
                 IN  CASE ins.i = "flush"           -> [add(0) EXCEPT !.pending = 0]
                       [] ins.i = "add_pending"     -> add(ins.n)
                       [] ins.i = "take_pending"    -> [add(ins.n) EXCEPT !.pending = 0, !.saved = s.pending]
                       [] ins.i = "restore_pending" ->
                              [s EXCEPT !.code = Append(@, [i |-> "nop"]), !.pending = s.saved]
                       [] OTHER                     -> [s EXCEPT !.code = Append(@, ins)]
    IN  after[Len(code)]

\* the offsets that a backward jr goes to: pending cycles are flushed there
scan_branch_targets(m, src) ==
    LET marks[off \in 0..(BlockBytes + 2)] ==
            IF off >= BlockBytes THEN {}
            ELSE LET op == READ_BYTE(m, src, off)
                     next == off + insn_length(op)
                     target == next + Signed8(READ_BYTE(m, src, off + 1))
                 IN  marks[next] \union
                     IF op \in {24, 32, 40, 48, 56} /\ target >= 0 /\ target < off
                     THEN {target} ELSE {}
    IN  marks[0]

(* compile_block: one entry per GB instruction, with the cycles pending    *)
(* before it; m68k_offsets points behind the flush at a branch target.     *)
compile_block(m, src) ==
    LET flush_at == scan_branch_targets(m, src)
        entry(gb, off, flush, code, pending) ==
            [gb |-> gb, off |-> off, flushed |-> gb /\ off \in flush_at, flush |-> flush,
             code |-> code, pending |-> pending]
        with(b, op, flush, r) ==
            [insns   |-> Append(b.insns, entry(TRUE, b.ptr, flush, r.code, b.pending)),
             ptr     |-> b.ptr + insn_length(op),
             pending |-> r.pending,
             emitted |-> b.emitted + Len(r.code),
             done    |-> op \in Ends]
        insn(b, op, before) ==
            with(b, op, before.code,
                 resolve(compile_insn(m, src, op, b.ptr + 1),
                         before.pending + instruction_cycles(op, READ_BYTE(m, src, b.ptr + 1))))
        step(b) ==
            IF b.emitted > BlockCode \/ b.ptr >= BlockBytes
            THEN LET chain == resolve(flush_cycles \o exit_to(Wrap16(src + b.ptr)), b.pending)
                 IN  [b EXCEPT !.insns = Append(@, entry(FALSE, b.ptr, <<>>, chain.code, b.pending)),
                               !.done = TRUE]
            ELSE insn(b, READ_BYTE(m, src, b.ptr),
                      IF b.ptr \in flush_at THEN resolve(flush_cycles, b.pending)
                      ELSE [code |-> <<>>, pending |-> b.pending])
        blocks[n \in 0..(BlockBytes + 1)] ==
            IF n = 0 THEN [insns |-> <<>>, ptr |-> 0, pending |-> 0, emitted |-> 0, done |-> FALSE]
            ELSE LET b == blocks[n - 1] IN IF b.done THEN b ELSE step(b)
    IN  blocks[BlockBytes + 1].insns

\* where a backward jr to offset `off` continues: m68k_offsets is 0 for an
\* offset that is not the start of an instruction
m68k_offset(insns, off) ==
    LET at == {k \in 1..Len(insns) : insns[k].off = off}
    IN  IF at = {} THEN 1 ELSE CHOOSE k \in at : TRUE
=============================================================================
