--------------------------- MODULE AlpideRegisters --------------------------
(***************************************************************************)
(* The registers of the ALPIDE chip, one definition for each pair of       *)
(* generated functions setreg_<name>, getreg_<name>.                       *)
(***************************************************************************)
EXTENDS RegisterLayout

seu_counter == Status(\h700, {F("seu_counter", 0, 16)})
cmd == Register(\h000, {F("Command", 0, 16)})
mode_ctrl == Register(\h001, {F("ChipModeSelector", 0, 2), F("EnClustering", 2, 1),
    F("MatrixROSpeed", 3, 1), F("IBSerialLinkSpeed", 4, 2), F("EnSkewGlobalSignals", 6, 1),
    F("EnSkewStartReadout", 7, 1), F("EnReadoutClockGating", 8, 1), F("EnReadoutFromCMU", 9, 1)})
disable_regions_lsbs == Register(\h002, {F("RegionDisable", 0, 16)})
disable_regions_msbs == Register(\h003, {F("RegionDisable", 0, 16)})
fromu_cfg_1 == Register(\h004, {F("MEBMask", 0, 3), F("EnStrobeGeneration", 3, 1),
    F("EnBusyMonitoring", 4, 1), F("PulseMode", 5, 1), F("EnPulse2Strobe", 6, 1),
    F("EnRotatePulseLines", 7, 1), F("TriggerDelay", 8, 3)})
fromu_cfg_2 == Register(\h005, {F("FrameDuration", 0, 16)})
fromu_cfg_3 == Register(\h006, {F("FrameGap", 0, 16)})
fromu_pulsing1 == Register(\h007, {F("PulseDelay", 0, 16)})
fromu_pulsing_2 == Register(\h008, {F("PulseDuration", 0, 16)})
fromu_status_1 == Status(\h009, {F("TriggerCounter", 0, 16)})
fromu_status_2 == Status(\h00A, {F("StrobeCounter", 0, 16)})
fromu_status_3 == Status(\h00B, {F("ReadoutCounter", 0, 16)})
fromu_status_4 == Status(\h00C, {F("FrameCounter", 0, 16)})
fromu_status_5 == Status(\h00D, {F("BunchCounter", 0, 12), F("EventCounter", 12, 3),
    F("EnStrobeGeneration", 15, 1)})
dac_settings_dclk_and_mclk_io_buffers == Register(\h00E, {F("DCLKReceiver", 0, 4),
    F("DCLKDriver", 4, 4), F("MCLKReceiver", 8, 4)})
dac_settings_cmu_io_buffers == Register(\h00F, {F("DCTRLReceiver", 0, 4), F("DCTRLDriver", 4, 4)})
cmu_and_dmu_cfg == Register(\h010, {F("PreviousChipID", 0, 4), F("InitialToken", 4, 1),
    F("DisableManchester", 5, 1), F("EnableDDR", 6, 1)})
cmu_and_dmu_status == Status(\h011, {F("CMUErrorsCounter", 0, 4), F("CMUTimeOutCounter", 4, 4),
    F("CMUOpCounter", 8, 4)})
dmu_data_fifo_lsbs == Status(\h012, {F("DMUDataFifoLSB", 0, 16)})
dmu_data_fifo_msbs == Status(\h013, {F("DMUDataFifoMSB", 0, 8)})
dtu_cfg == Register(\h014, {F("VcoDelayStages", 0, 2), F("PllBandwidthControl", 2, 1),
    F("PllOffSignal", 3, 1), F("SerPhase", 4, 4), F("PLLReset", 8, 1), F("LoadENStatus", 12, 1)})
dtu_dacs == Register(\h015, {F("PLLDAC", 0, 4), F("DriverDAC", 4, 4), F("PreDAC", 8, 4)})
dtu_pll_lock_1 == Status(\h016, {F("LockCounter", 0, 8), F("LockFlag", 8, 1),
    F("LockStatus", 9, 1)})
dtu_pll_lock_2 == Register(\h017, {F("LockWaitCycles", 0, 8), F("UnlockWaitCycles", 8, 8)})
dtu_test_1 == Register(\h018, {F("TestEN", 0, 1), F("IntPatternEN", 1, 1),
    F("TestSingleMode", 2, 1), F("PrbsRate", 3, 2), F("Bypass8b10b", 5, 1),
    F("BDIN8b10b0", 6, 2), F("BDIN8b10b1", 8, 2), F("BDIN8b10b2", 10, 2), F("K0", 12, 1),
    F("K1", 13, 1), F("K2", 14, 1)})
dtu_test_2 == Register(\h019, {F("DIN0", 0, 8), F("DIN1", 8, 8)})
dtu_test_3 == Register(\h01A, {F("DIN2", 0, 8), F("ForceSetLoadEN", 8, 1),
    F("ForceUnsetLoadEN", 9, 1)})
busy_min_width == Register(\h01B, {F("BusyMinWidth", 0, 5)})
pixel_cfg == Register(\h500, {F("PIXCNFG_REGSEL", 0, 1), F("PIXCNFG_DATA", 1, 1)})
analog_monitor_and_override == Register(\h600, {F("VoltageDACSel", 0, 4),
    F("CurrentDACSel", 4, 3), F("SWCNTL_DACMONI", 7, 1), F("SWCNTL_DACMONV", 8, 1),
    F("IRefBufferCurrent", 9, 2)})
VRESETP == Register(\h601, {F("VRESETP", 0, 8)})
VRESETD == Register(\h602, {F("VRESETD", 0, 8)})
VCASP == Register(\h603, {F("VCASP", 0, 8)})
VCASN == Register(\h604, {F("VCASN", 0, 8)})
VPULSEH == Register(\h605, {F("VPULSEH", 0, 8)})
VPULSEL == Register(\h606, {F("VPULSEL", 0, 8)})
VCASN2 == Register(\h607, {F("VCASN2", 0, 8)})
VCLIP == Register(\h608, {F("VCLIP", 0, 8)})
VTEMP == Register(\h609, {F("VTEMP", 0, 8)})
IAUX2 == Register(\h60A, {F("IAUX2", 0, 8)})
IRESET == Register(\h60B, {F("IRESET", 0, 8)})
IDB == Register(\h60C, {F("IDB", 0, 8)})
IBIAS == Register(\h60D, {F("IBIAS", 0, 8)})
ITHR == Register(\h60E, {F("ITHR", 0, 8)})
buffer_bypass == Register(\h60F, {F("VCASNBYPASS", 0, 1), F("VCASN2BYPASS", 1, 1),
    F("VCASPBYPASS", 2, 1), F("VCLIPBYPASS", 3, 1), F("IRESETBYPASS", 4, 1),
    F("IBIASBYPASS", 5, 1), F("ITHRBYPASS", 6, 1), F("IDBBYPASS", 7, 1)})
adc_ctrl == Register(\h610, {F("Mode", 0, 2), F("SelInput", 2, 4), F("SetIComp", 6, 2),
    F("DiscriSign", 8, 1), F("RampSpd", 9, 2), F("HalfLSBTrim", 11, 1), F("CompOut", 15, 1)})
adc_dac_input_value == Register(\h611, {F("DACValue", 0, 11)})
adc_calibration_value == Status(\h612, {F("CalibrationValue", 0, 11)})
adc_avss_value == Status(\h613, {F("AVSSValue", 0, 11)})
adc_dvss_value == Status(\h614, {F("DVSSValue", 0, 11)})
adc_avdd_value == Status(\h615, {F("AVDDValue", 0, 11)})
adc_dvdd_value == Status(\h616, {F("DVDDValue", 0, 11)})
adc_vcasn_value == Status(\h617, {F("VCASNValue", 0, 11)})
adc_vcasp_value == Status(\h618, {F("VCASPValue", 0, 11)})
adc_vpulseh_value == Status(\h619, {F("VPULSEHValue", 0, 11)})
adc_vpulsel_value == Status(\h61A, {F("VPULSELValue", 0, 11)})
adc_vresetp_value == Status(\h61B, {F("VRESETPValue", 0, 11)})
adc_vresetd_value == Status(\h61C, {F("VRESETDValue", 0, 11)})
adc_vcasn2_value == Status(\h614, {F("VCASN2Value", 0, 11)})
adc_vclip_value == Status(\h61E, {F("VCLIPValue", 0, 11)})
adc_vtemp_value == Status(\h61F, {F("VTEMPValue", 0, 11)})
adc_ithr_value == Status(\h620, {F("ITHRValue", 0, 11)})
adc_iref_value == Status(\h621, {F("IREFValue", 0, 11)})
adc_idb_value == Status(\h622, {F("IDBValue", 0, 11)})
adc_ibias_value == Status(\h623, {F("IBIASValue", 0, 11)})
adc_iaux2_value == Status(\h624, {F("IAUX2Value", 0, 11)})
adc_ireset_value == Status(\h625, {F("IRESETValue", 0, 11)})
adc_bg2v_value == Status(\h626, {F("BG2VValue", 0, 11)})
adc_t2v_value == Status(\h627, {F("T2VValue", 0, 11)})

AllRegisters == {
  seu_counter, cmd, mode_ctrl, disable_regions_lsbs, disable_regions_msbs, fromu_cfg_1,
  fromu_cfg_2, fromu_cfg_3, fromu_pulsing1, fromu_pulsing_2, fromu_status_1, fromu_status_2,
  fromu_status_3, fromu_status_4, fromu_status_5, dac_settings_dclk_and_mclk_io_buffers,
  dac_settings_cmu_io_buffers, cmu_and_dmu_cfg, cmu_and_dmu_status, dmu_data_fifo_lsbs,
  dmu_data_fifo_msbs, dtu_cfg, dtu_dacs, dtu_pll_lock_1, dtu_pll_lock_2, dtu_test_1,
  dtu_test_2, dtu_test_3, busy_min_width, pixel_cfg, analog_monitor_and_override, VRESETP,
  VRESETD, VCASP, VCASN, VPULSEH, VPULSEL, VCASN2, VCLIP, VTEMP, IAUX2, IRESET, IDB, IBIAS,
  ITHR, buffer_bypass, adc_ctrl, adc_dac_input_value, adc_calibration_value, adc_avss_value,
  adc_dvss_value, adc_avdd_value, adc_dvdd_value, adc_vcasn_value, adc_vcasp_value,
  adc_vpulseh_value, adc_vpulsel_value, adc_vresetp_value, adc_vresetd_value,
  adc_vcasn2_value, adc_vclip_value, adc_vtemp_value, adc_ithr_value, adc_iref_value,
  adc_idb_value, adc_ibias_value, adc_iaux2_value, adc_ireset_value, adc_bg2v_value,
  adc_t2v_value}

=============================================================================
